---- MODULE Spec2Model ----
(***************************************************************************)
(* Model of the SCF dataset and query engine of security-controls-mcp      *)
(* (src/src/security_controls_mcp/data_loader.py, class SCFData).          *)
(*                                                                         *)
(* Python values are modelled as follows.                                  *)
(*   str            a sequence of one-character strings (so that lower(),  *)
(*                  `in` and find() are computed, not assumed)             *)
(*   T | None       a tagged record: None, Str(s) or List(items)           *)
(*   dict           a function; d.get(k) is DictGet(d, k)                  *)
(*   control ids and framework keys are only ever compared for equality    *)
(*   and are kept as atomic strings.                                       *)
(***************************************************************************)
EXTENDS Integers, Sequences, FiniteSets, TLC

VARIABLES
    loaded,          \* SCFData() has returned: the instance can serve queries
    controls,        \* self.controls
    controls_by_id,  \* self.controls_by_id
    frameworks,      \* self.frameworks
    framework_categories,  \* self.framework_categories
    framework_to_scf,      \* self.framework_to_scf
    call,            \* the last engine call: its name and arguments
    ret,             \* what that call returned
    readers,         \* concurrent callers: each one's call, scan position and locals
    startup,         \* where SCFData() stands, and the file that failed to load
    request,         \* the request an adapter entry point is handling
    response,        \* the adapter's response to it
    ws,              \* extract_scf_frameworks.py: the worksheet rows it reads
    extracted,       \* what its main() has produced from them
    environ,         \* os.environ.get("PREMIUM_ENABLED")
    SPECIALIZED_EXTRACTORS,  \* extractors/registry.py: the global registry
    history_file,    \* data/version-history.json: missing, or its contents
    vh               \* the VersionHistory object and its last query

\* The dataset: the fields _load_data fills.
dataset ==
    <<controls, controls_by_id, frameworks, framework_categories, framework_to_scf>>

\* What an adapter sees of a request.
exchange == <<request, response>>

\* The state outside the engine and its adapters: the extraction script, the
\* premium switch, the extractor registry and the version history.
side == <<ws, extracted, environ, SPECIALIZED_EXTRACTORS, history_file, vh>>

vars == <<loaded, dataset, call, ret, readers, startup, exchange, side>>

(***************************************************************************)
(* Bounds of the model.                                                    *)
(***************************************************************************)
MaxControls == 2

MaxLimit == 2

(***************************************************************************)
(* Python values.                                                          *)
(***************************************************************************)
None == [tag |-> "None"]

Str(s) == [tag |-> "str", s |-> s]

List(items) == [tag |-> "list", items |-> items]

IntVal(n) == [tag |-> "int", n |-> n]

Bool(b) == [tag |-> "bool", b |-> b]

\* A float with an integral value, such as 7.0.
Float(w) == [tag |-> "float", whole |-> w]

\* A str the model keeps whole: a framework key or a control id.
Name(k) == [tag |-> "name", k |-> k]

\* The outcome of a call: it returned a value, or raised an exception.
Return(v) == [tag |-> "return", value |-> v]

Raise(exc) == [tag |-> "raise", exc |-> exc]

\* Python truthiness of None, a str, a list, an int or a bool.
Truthy(v) ==
    CASE v.tag = "None" -> FALSE
      [] v.tag = "str" -> Len(v.s) > 0
      [] v.tag = "list" -> Len(v.items) > 0
      [] v.tag = "name" -> v.k # ""
      [] v.tag = "int" -> v.n # 0
      [] v.tag = "bool" -> v.b
      [] v.tag = "float" -> v.whole # 0

\* dict.get(k): the value, or None when the key is absent.
DictGet(d, k) == IF k \in DOMAIN d THEN d[k] ELSE None

Range(s) == {s[i] : i \in 1..Len(s)}

\* str.lower() on the characters the model uses.
LowerChar(c) ==
    CASE c = "E" -> "e"
      [] c = "N" -> "n"
      [] c = "K" -> "k"
      [] c = "O" -> "o"
      [] OTHER -> c

\* LATIN CAPITAL LETTER I WITH DOT ABOVE, the one character whose lower case
\* is two characters: "i" and COMBINING DOT ABOVE.
IDot == "U+0130"

CombiningDot == "U+0307"

LowerOf(c) == IF c = IDot THEN <<"i", CombiningDot>> ELSE <<LowerChar(c)>>

\* str.lower(): the lower case of each character, in order.  A text without
\* U+0130 keeps its length; one with it is put together by halves, so that
\* long texts do not nest deeply.
RECURSIVE Lower(_)
Lower(s) ==
    IF \A i \in 1..Len(s) : s[i] # IDot THEN [i \in 1..Len(s) |-> LowerChar(s[i])]
    ELSE IF Len(s) = 1 THEN LowerOf(s[1])
    ELSE Lower(SubSeq(s, 1, Len(s) \div 2)) \o Lower(SubSeq(s, Len(s) \div 2 + 1, Len(s)))

\* Python's `q in s` on strings: q occurs in s as a contiguous substring.
Contains(s, q) ==
    \E i \in 0..(Len(s) - Len(q)) : SubSeq(s, i + 1, i + Len(q)) = q

\* Python's s.find(q): the first (0-based) index of q in s, or -1.
Find(s, q) ==
    IF Contains(s, q)
    THEN CHOOSE i \in 0..(Len(s) - Len(q)) :
            /\ SubSeq(s, i + 1, i + Len(q)) = q
            /\ \A j \in 0..(i - 1) : SubSeq(s, j + 1, j + Len(q)) # q
    ELSE -1

\* Python's s[a:b] for 0 <= a and b <= len(s).
Slice(s, a, b) == SubSeq(s, a + 1, b)

Min(a, b) == IF a <= b THEN a ELSE b

Max(a, b) == IF a >= b THEN a ELSE b

(***************************************************************************)
(* The static (key, display name) table of _build_framework_metadata: a    *)
(* representative part of its 261 entries, in the table's order.           *)
(***************************************************************************)
FrameworkKeyOrder == <<"iso_27001_2022", "gdpr", "dora">>

framework_names ==
    [k \in Range(FrameworkKeyOrder) |->
        CASE k = "iso_27001_2022" -> "ISO/IEC 27001:2022"
          [] k = "gdpr" -> "General Data Protection Regulation (GDPR)"
          [] k = "dora" -> "Digital Operational Resilience Act (DORA)"]

\* A key that occurs in controls' framework_mappings only, not in the table.
UnlistedKey == "scf_unlisted"

\* A key that occurs nowhere.
UnknownKey == "fake_framework"

\* The order in which a control's framework_mappings dict holds its keys.
MappingKeyOrder == <<"iso_27001_2022", "gdpr", "dora", "scf_unlisted">>

(***************************************************************************)
(* The contents of scf-controls.json: bounded control records.             *)
(***************************************************************************)
ControlIds == {"GOV-01", "GOV-02"}

Id51 == <<"5", ".", "1">>

Id510 == <<"5", ".", "1", "0">>

ArtA == <<"A", "5">>

ArtB == <<"A", "6">>

L1 == <<"L", "1">>

Texts ==
    { [name |-> Str(<<"E", "n">>), description |-> Str(<<"E", "n">>), weight |-> 9],
      [name |-> Str(<<"K", "e", "N">>), description |-> Str(<<"k">>), weight |-> 5],
      [name |-> Str(<<"k">>), description |-> Str(<<>>), weight |-> 1] }

\* framework_mappings tables: a mapping is null, an empty list or a list of
\* native ids, and a key may be missing from the table altogether.
Mappings ==
    { [k \in {"iso_27001_2022", "gdpr", "dora"} |->
          IF k = "iso_27001_2022" THEN List(<<Id510, Id51>>) ELSE None],
      [k \in {"iso_27001_2022", "dora", UnlistedKey} |->
          CASE k = "iso_27001_2022" -> List(<<Id510>>)
            [] k = "dora" -> List(<<ArtA>>)
            [] OTHER -> List(<<L1>>)],
      [k \in {"iso_27001_2022", "dora", UnlistedKey} |->
          CASE k = "iso_27001_2022" -> List(<<>>)
            [] k = "dora" -> List(<<ArtA, ArtB>>)
            [] OTHER -> List(<<L1>>)] }

ControlRecords ==
    { [id |-> i, name |-> t.name, description |-> t.description,
       weight |-> t.weight, framework_mappings |-> m] :
        i \in ControlIds, t \in Texts, m \in Mappings }

\* The "controls" array of the file: up to MaxControls records, ids may repeat.
ControlFiles == UNION {[1..n -> ControlRecords] : n \in 0..MaxControls}

\* Three records that differ in every field, and the files made of them.
SampleRecords ==
    {c \in ControlRecords :
        \/ c.id = "GOV-01" /\ c.weight = 9 /\ "gdpr" \in DOMAIN c.framework_mappings
        \/ c.id = "GOV-02" /\ c.weight = 5 /\ c.framework_mappings["dora"] = List(<<ArtA>>)
        \/ c.id = "GOV-01" /\ c.weight = 1
              /\ c.framework_mappings["dora"] = List(<<ArtA, ArtB>>)}

SampleFiles == UNION {[1..n -> SampleRecords] : n \in 0..MaxControls}

(***************************************************************************)
(* _load_data and _build_framework_metadata.                               *)
(***************************************************************************)
\* Mutant of BuildIdIndex: the first record of an id is kept.
BuildIdIndexFirstWins(cs) ==
    [i \in {cs[n].id : n \in 1..Len(cs)} |->
        cs[CHOOSE n \in 1..Len(cs) :
              /\ cs[n].id = i
              /\ \A m \in 1..(n - 1) : cs[m].id # i]]

\* {ctrl["id"]: ctrl for ctrl in self.controls}: a later record overwrites.
BuildIdIndex(cs) ==
    [i \in {cs[n].id : n \in 1..Len(cs)} |->
        cs[CHOOSE n \in 1..Len(cs) :
              /\ cs[n].id = i
              /\ \A m \in (n + 1)..Len(cs) : cs[m].id # i]]

\* Mutant of CountMapped: a control counts as soon as it has the key.
CountMappedByKey(cs, fw_key) ==
    Cardinality({n \in 1..Len(cs) : fw_key \in DOMAIN cs[n].framework_mappings})

\* sum(1 for ctrl in self.controls if ctrl["framework_mappings"].get(fw_key))
CountMapped(cs, fw_key) ==
    Cardinality({n \in 1..Len(cs) : Truthy(DictGet(cs[n].framework_mappings, fw_key))})

\* Mutant of BuildFrameworkMetadata: every key of the name table is registered.
BuildFrameworkMetadataAll(cs) ==
    [k \in DOMAIN framework_names |->
        [key |-> k, name |-> framework_names[k], controls_mapped |-> CountMapped(cs, k)]]

BuildFrameworkMetadata(cs) ==
    [k \in {fw_key \in DOMAIN framework_names : CountMapped(cs, fw_key) > 0} |->
        [key |-> k, name |-> framework_names[k], controls_mapped |-> CountMapped(cs, k)]]

\* self.framework_categories, for the keys of the model.
FrameworkCategories ==
    [c \in {"iso_standards", "privacy", "financial", "eu_regulations"} |->
        CASE c = "iso_standards" -> <<"iso_27001_2022">>
          [] c = "privacy" -> <<"gdpr">>
          [] c = "financial" -> <<"dora">>
          [] c = "eu_regulations" -> <<"gdpr", "dora">>]

\* reverse_index[fw_key][mapping]: the id of every control that lists the
\* native id under the key, in stored order, once per occurrence.
RECURSIVE SCFIdsLoop(_, _, _, _)
SCFIdsLoop(cs, n, fw_key, mapping) ==
    IF n > Len(cs) THEN <<>>
    ELSE LET mappings == DictGet(cs[n].framework_mappings, fw_key)
             found == IF Truthy(mappings)
                      THEN SelectSeq(mappings.items, LAMBDA x : x = mapping)
                      ELSE <<>>
         IN  [i \in 1..Len(found) |-> cs[n].id] \o SCFIdsLoop(cs, n + 1, fw_key, mapping)

\* Mutant of build_reverse_index: a key gets its table at its first mapping,
\* so a framework no control maps to has no entry.
build_reverse_index_on_demand(cs) ==
    [fw_key \in {k \in Range(MappingKeyOrder) :
                    \E n \in 1..Len(cs) : Truthy(DictGet(cs[n].framework_mappings, k))} |->
        [mapping \in UNION {Range(DictGet(cs[n].framework_mappings, fw_key).items) :
                               n \in {m \in 1..Len(cs) :
                                        Truthy(DictGet(cs[m].framework_mappings, fw_key))}} |->
            SCFIdsLoop(cs, 1, fw_key, mapping)]]

\* framework-to-scf.json as the extraction writes it next to scf-controls.json:
\* one table per framework column, keyed by native id.
build_reverse_index(cs) ==
    [fw_key \in Range(MappingKeyOrder) |->
        [mapping \in UNION {Range(DictGet(cs[n].framework_mappings, fw_key).items) :
                               n \in {m \in 1..Len(cs) :
                                        Truthy(DictGet(cs[m].framework_mappings, fw_key))}} |->
            SCFIdsLoop(cs, 1, fw_key, mapping)]]

\* The callers that may be inside the engine at the same time.
Readers == {"r1", "r2"}

IdleReader == [pc |-> "idle"]

\* No request is being handled by an adapter.
NoRequest == [entry |-> "none"]

NoResponse == [kind |-> "none"]

\* No engine call is in progress: the last result, if any, was handed back.
NoCall == [op |-> "none"]

Idle == call = NoCall

\* main() of the extraction script has not run.
NotExtracted == [done |-> FALSE]

\* Nothing has decided yet whether data/version-history.json exists.
NotWritten == [exists |-> "undecided"]

\* VersionHistory.__init__: nothing loaded, no query made.
NewVersionHistory ==
    [history |-> <<>>, control_history |-> <<>>, _loaded |-> FALSE,
     reads |-> 0, call |-> NoCall, ret |-> <<>>, exc |-> "none"]

\* The fields as SCFData.__init__ sets them before _load_data runs.
Init ==
    /\ loaded = FALSE
    /\ controls = <<>>
    /\ controls_by_id = <<>>
    /\ frameworks = <<>>
    /\ framework_categories = <<>>
    /\ framework_to_scf = <<>>
    /\ call = NoCall
    /\ ret = Return(None)
    /\ readers = [r \in Readers |-> IdleReader]
    /\ startup = [pc |-> "init", failure |-> "none"]
    /\ request = NoRequest
    /\ response = NoResponse
    /\ ws = <<>>
    /\ extracted = NotExtracted
    /\ environ = None
    /\ SPECIALIZED_EXTRACTORS = <<>>
    /\ history_file = NotWritten
    /\ vh = NewVersionHistory

\* _load_data on one of the given files.
LoadFrom(files) ==
    /\ ~loaded
    /\ \E file \in files :
        /\ controls' = file
        /\ controls_by_id' = BuildIdIndex(file)
        /\ framework_to_scf' = build_reverse_index(file)
        /\ framework_categories' = FrameworkCategories
        /\ frameworks' = BuildFrameworkMetadata(file)
    /\ loaded' = TRUE
    /\ startup' = [pc |-> "ready", failure |-> "none"]
    /\ UNCHANGED <<call, ret, readers, exchange, side>>

LoadData == LoadFrom(ControlFiles)

(***************************************************************************)
(* SCFData() statement by statement, with files that may be missing or     *)
(* unparseable.  Nothing catches the exception of open(), json.load() or   *)
(* data["controls"]: it leaves _load_data, __init__ and the module-level   *)
(* `scf_data = SCFData()`, so the name the handlers use is never bound.    *)
(***************************************************************************)
\* Mutant of AfterFailedRead: the error is swallowed and loading goes on.
AfterFailedReadGoOn(pc_next) == pc_next

\* Where the constructor stands after a read raised.
AfterFailedRead(pc_next) == "aborted"

\* with open(data_dir / "scf-controls.json") ...: self.controls = data["controls"]
ReadControlsFile ==
    /\ startup.pc = "init"
    /\ \/ \E file \in SampleFiles :
            /\ controls' = file
            /\ startup' = [startup EXCEPT !.pc = "controls_read"]
       \/ /\ startup' = [pc |-> AfterFailedRead("controls_read"),
                          failure |-> "scf-controls.json"]
          /\ UNCHANGED controls
    /\ UNCHANGED <<loaded, controls_by_id, frameworks, framework_categories,
                   framework_to_scf, call, ret, readers, exchange, side>>

\* self.controls_by_id = {ctrl["id"]: ctrl for ctrl in self.controls}
BuildIdIndexStep ==
    /\ startup.pc = "controls_read"
    /\ controls_by_id' = BuildIdIndex(controls)
    /\ startup' = [startup EXCEPT !.pc = "indexed"]
    /\ UNCHANGED <<loaded, controls, frameworks, framework_categories,
                   framework_to_scf, call, ret, readers, exchange, side>>

\* with open(data_dir / "framework-to-scf.json") ...: self.framework_to_scf = json.load(f)
ReadReverseIndexFile ==
    /\ startup.pc = "indexed"
    /\ \/ /\ framework_to_scf' = build_reverse_index(controls)
          /\ startup' = [startup EXCEPT !.pc = "reverse_read"]
       \/ /\ startup' = [pc |-> AfterFailedRead("reverse_read"),
                          failure |-> "framework-to-scf.json"]
          /\ UNCHANGED framework_to_scf
    /\ UNCHANGED <<loaded, controls, controls_by_id, frameworks, framework_categories,
                   call, ret, readers, exchange, side>>

\* self._build_framework_metadata(); the constructor returns and scf_data is
\* bound: from here on the handlers can call the engine.
BuildFrameworkMetadataStep ==
    /\ startup.pc = "reverse_read"
    /\ framework_categories' = FrameworkCategories
    /\ frameworks' = BuildFrameworkMetadata(controls)
    /\ startup' = [startup EXCEPT !.pc = "ready"]
    /\ loaded' = TRUE
    /\ UNCHANGED <<controls, controls_by_id, framework_to_scf, call, ret, readers, exchange, side>>

(***************************************************************************)
(* get_control                                                             *)
(***************************************************************************)
get_control(control_id) == DictGet(controls_by_id, control_id)

LookupIds == ControlIds \cup {"FAKE-999"}

\* Mutant of GetControl: controls_by_id.pop(control_id, None) for .get.
GetControlPopping ==
    /\ loaded
    /\ Idle
    /\ \E control_id \in LookupIds :
        /\ call' = [op |-> "get_control", control_id |-> control_id]
        /\ ret' = Return(get_control(control_id))
        /\ controls_by_id' =
              [i \in DOMAIN controls_by_id \ {control_id} |-> controls_by_id[i]]
    /\ UNCHANGED <<loaded, controls, frameworks, framework_categories, framework_to_scf,
                   readers, startup, exchange, side>>

GetControl ==
    /\ loaded
    /\ Idle
    /\ \E control_id \in LookupIds :
        /\ call' = [op |-> "get_control", control_id |-> control_id]
        /\ ret' = Return(get_control(control_id))
    /\ UNCHANGED <<loaded, dataset, readers, startup, exchange, side>>

(***************************************************************************)
(* search_controls                                                         *)
(***************************************************************************)
SnippetBefore == 50

SnippetAfter == 100

SnippetFallback == 150

Ellipsis == <<".", ".", ".">>

\* ctrl["name"].lower() if ctrl["name"] else ""   (likewise the description)
LowerOrEmpty(field) == IF Truthy(field) THEN Lower(field.s) ELSE <<>>

\* query_lower in name_lower or query_lower in desc_lower
TextMatches(ctrl, query_lower) ==
    \/ Contains(LowerOrEmpty(ctrl.name), query_lower)
    \/ Contains(LowerOrEmpty(ctrl.description), query_lower)

\* Mutant of HasMapping: all(...), every supplied key must be mapped.
HasMappingForAll(ctrl, fws) ==
    \A i \in 1..Len(fws) : Truthy(DictGet(ctrl.framework_mappings, fws[i]))

\* any(ctrl["framework_mappings"].get(fw) for fw in frameworks)
HasMapping(ctrl, fws) ==
    \E i \in 1..Len(fws) : Truthy(DictGet(ctrl.framework_mappings, fws[i]))

\* Mutant of Selected: a mapped control is taken even when its text does not
\* match (the filter widens instead of narrowing).
SelectedWidening(ctrl, query_lower, fws) ==
    \/ TextMatches(ctrl, query_lower)
    \/ (Truthy(fws) /\ HasMapping(ctrl, fws.items))

\* The control passes both tests of the loop body: the text match and, only
\* when a non-empty framework list is given, the framework filter.
Selected(ctrl, query_lower, fws) ==
    /\ TextMatches(ctrl, query_lower)
    /\ (Truthy(fws) => HasMapping(ctrl, fws.items))

\* [fw for fw, mappings in ctrl["framework_mappings"].items() if mappings]
MappedFrameworks(ctrl) ==
    LET Mapped(fw) == /\ fw \in DOMAIN ctrl.framework_mappings
                      /\ Truthy(ctrl.framework_mappings[fw])
    IN  SelectSeq(MappingKeyOrder, Mapped)

\* The snippet of a description that is a str (desc.lower() raises otherwise).
Snippet(desc, query, query_lower) ==
    LET idx == Find(Lower(desc), query_lower)
        start == Max(0, idx - SnippetBefore)
        end == Min(Len(desc), idx + Len(query) + SnippetAfter)
    IN  IF idx >= 0
        THEN (IF start > 0 THEN Ellipsis ELSE <<>>)
             \o Slice(desc, start, end)
             \o (IF end < Len(desc) THEN Ellipsis ELSE <<>>)
        ELSE IF Len(desc) > SnippetFallback
             THEN Slice(desc, 0, SnippetFallback) \o Ellipsis
             ELSE desc

SearchHit(ctrl, query, query_lower) ==
    [control_id |-> ctrl.id,
     name |-> ctrl.name,
     snippet |-> Snippet(ctrl.description.s, query, query_lower),
     relevance |-> 1,
     mapped_frameworks |-> MappedFrameworks(ctrl)]

\* Mutant of LimitReached: the loop stops one hit late.
LimitReachedLate(results, limit) == Len(results) > limit

\* Mutant of LimitReached: the loop stops one hit early.
LimitReachedEarly(results, limit) == Len(results) >= limit - 1

\* len(results) >= limit, tested after each append.
LimitReached(results, limit) == Len(results) >= limit

\* The loop over self.controls, from the n-th control on.
RECURSIVE SearchLoop(_, _, _, _, _, _)
SearchLoop(cs, n, results, query, fws, limit) ==
    IF n > Len(cs) THEN Return(results)
    ELSE
    LET ctrl == cs[n]
        query_lower == Lower(query)
    IN  IF ~Selected(ctrl, query_lower, fws)
        THEN SearchLoop(cs, n + 1, results, query, fws, limit)
        ELSE IF ctrl.description.tag # "str"
        THEN Raise("AttributeError")
        ELSE LET appended == Append(results, SearchHit(ctrl, query, query_lower))
             IN  IF LimitReached(appended, limit)
                 THEN Return(appended)
                 ELSE SearchLoop(cs, n + 1, appended, query, fws, limit)

search_controls(query, fws, limit) == SearchLoop(controls, 1, <<>>, query, fws, limit)

Queries == {<<"E", "N">>, <<"k">>, <<>>}

FrameworkFilters ==
    {None, List(<<>>), List(<<"dora">>), List(<<UnknownKey, "iso_27001_2022">>)}

Limits == (-1)..MaxLimit

SearchControls ==
    /\ loaded
    /\ Idle
    /\ \E query \in Queries, fws \in FrameworkFilters, limit \in Limits :
        /\ call' = [op |-> "search_controls", query |-> query,
                    frameworks |-> fws, limit |-> limit]
        /\ ret' = search_controls(query, fws, limit)
    /\ UNCHANGED <<loaded, dataset, readers, startup, exchange, side>>

(***************************************************************************)
(* get_framework_controls                                                  *)
(***************************************************************************)
\* Mutant of FrameworkControlRow: the description is always included.
FrameworkControlRowDescribed(ctrl, fw_mappings, include_descriptions) ==
    [scf_id |-> ctrl.id, scf_name |-> ctrl.name,
     framework_control_ids |-> fw_mappings.items, weight |-> ctrl.weight,
     description |-> ctrl.description]

FrameworkControlRow(ctrl, fw_mappings, include_descriptions) ==
    IF include_descriptions
    THEN [scf_id |-> ctrl.id, scf_name |-> ctrl.name,
          framework_control_ids |-> fw_mappings.items, weight |-> ctrl.weight,
          description |-> ctrl.description]
    ELSE [scf_id |-> ctrl.id, scf_name |-> ctrl.name,
          framework_control_ids |-> fw_mappings.items, weight |-> ctrl.weight]

RECURSIVE FrameworkControlsLoop(_, _, _, _, _)
FrameworkControlsLoop(cs, n, results, framework, include_descriptions) ==
    IF n > Len(cs) THEN results
    ELSE
    LET ctrl == cs[n]
        fw_mappings == DictGet(ctrl.framework_mappings, framework)
    IN  IF Truthy(fw_mappings)
        THEN FrameworkControlsLoop(cs, n + 1,
                Append(results, FrameworkControlRow(ctrl, fw_mappings, include_descriptions)),
                framework, include_descriptions)
        ELSE FrameworkControlsLoop(cs, n + 1, results, framework, include_descriptions)

get_framework_controls(framework, include_descriptions) ==
    FrameworkControlsLoop(controls, 1, <<>>, framework, include_descriptions)

QueryKeys == {"iso_27001_2022", "gdpr", "dora", UnlistedKey, UnknownKey}

GetFrameworkControls ==
    /\ loaded
    /\ Idle
    /\ \E framework \in QueryKeys, include_descriptions \in BOOLEAN :
        /\ call' = [op |-> "get_framework_controls", framework |-> framework,
                    include_descriptions |-> include_descriptions]
        /\ ret' = Return(get_framework_controls(framework, include_descriptions))
    /\ UNCHANGED <<loaded, dataset, readers, startup, exchange, side>>

(***************************************************************************)
(* map_frameworks                                                          *)
(***************************************************************************)
\* Mutant of ListContains: x in an element, as for a str (substring match).
ListContainsSubstring(items, x) == \E i \in 1..Len(items) : Contains(items[i], x)

\* x in source_mappings, source_mappings a list: equality with an element.
ListContains(items, x) == \E i \in 1..Len(items) : items[i] = x

\* source_control and source_control not in source_mappings
FilteredOut(source_control, source_mappings) ==
    Truthy(source_control) /\ ~ListContains(source_mappings.items, source_control.s)

\* Mutant of SkipControl: a control without a target mapping is skipped too.
SkipControlUnlessBoth(source_mappings, target_mappings) ==
    ~Truthy(source_mappings) \/ ~Truthy(target_mappings)

\* Mutant of SkipControl: `if source_mappings is None`, an empty list passes.
SkipControlIfNull(source_mappings, target_mappings) == source_mappings.tag # "list"

\* if not source_mappings: continue   (the target mapping plays no part)
SkipControl(source_mappings, target_mappings) == ~Truthy(source_mappings)

\* Mutant of OrEmptyList: a null target mapping is passed through as null.
OrEmptyListKeepsNull(target_mappings) ==
    IF target_mappings.tag = "list" THEN target_mappings.items ELSE None

\* target_mappings or []
OrEmptyList(target_mappings) ==
    IF Truthy(target_mappings) THEN target_mappings.items ELSE <<>>

\* Mutant of MappingRow: the two sides of the row are swapped.
MappingRowSwapped(ctrl, source_mappings, target_mappings) ==
    [scf_id |-> ctrl.id, scf_name |-> ctrl.name,
     source_controls |-> OrEmptyList(target_mappings),
     target_controls |-> source_mappings.items,
     weight |-> ctrl.weight]

MappingRow(ctrl, source_mappings, target_mappings) ==
    [scf_id |-> ctrl.id, scf_name |-> ctrl.name,
     source_controls |-> source_mappings.items,
     target_controls |-> OrEmptyList(target_mappings),
     weight |-> ctrl.weight]

RECURSIVE MapLoop(_, _, _, _, _, _)
MapLoop(cs, n, results, source_framework, target_framework, source_control) ==
    IF n > Len(cs) THEN results
    ELSE
    LET ctrl == cs[n]
        source_mappings == DictGet(ctrl.framework_mappings, source_framework)
        target_mappings == DictGet(ctrl.framework_mappings, target_framework)
    IN  IF SkipControl(source_mappings, target_mappings)
        THEN MapLoop(cs, n + 1, results, source_framework, target_framework, source_control)
        ELSE IF FilteredOut(source_control, source_mappings)
        THEN MapLoop(cs, n + 1, results, source_framework, target_framework, source_control)
        ELSE MapLoop(cs, n + 1,
                Append(results, MappingRow(ctrl, source_mappings, target_mappings)),
                source_framework, target_framework, source_control)

\* list(self.controls_by_id.values()): one record per id, at the place of the
\* id's first record.
IndexValues ==
    LET firsts == {n \in 1..Len(controls) :
                      \A m \in 1..(n - 1) : controls[m].id # controls[n].id}
        first(i) == CHOOSE n \in firsts : Cardinality({m \in firsts : m < n}) = i - 1
    IN  [i \in 1..Cardinality(firsts) |-> controls_by_id[controls[first(i)].id]]

\* Mutant of map_frameworks: the scan runs over the id index, not the list.
map_frameworks_over_index(source_framework, target_framework, source_control) ==
    MapLoop(IndexValues, 1, <<>>, source_framework, target_framework, source_control)

map_frameworks(source_framework, target_framework, source_control) ==
    MapLoop(controls, 1, <<>>, source_framework, target_framework, source_control)

SourceControls == {None, Str(<<>>), Str(Id51)}

MapFrameworks ==
    /\ loaded
    /\ Idle
    /\ \E source_framework \in QueryKeys, target_framework \in QueryKeys,
          source_control \in SourceControls :
        /\ call' = [op |-> "map_frameworks", source_framework |-> source_framework,
                    target_framework |-> target_framework,
                    source_control |-> source_control]
        /\ ret' = Return(map_frameworks(source_framework, target_framework, source_control))
    /\ UNCHANGED <<loaded, dataset, readers, startup, exchange, side>>

\* The caller (an adapter's call_tool) takes the result and formats its
\* response; the engine is ready for the next call.
HandBack ==
    /\ loaded
    /\ ~Idle
    /\ call' = NoCall
    /\ ret' = Return(None)
    /\ UNCHANGED <<loaded, dataset, readers, startup, exchange, side>>

(***************************************************************************)
(* Concurrent readers: each call is a scan of self.controls that advances  *)
(* one loop iteration per step, with `results` and the loop position local *)
(* to the call, and steps of different calls interleave freely.            *)
(***************************************************************************)
ReaderCalls ==
    {[op |-> "get_control", control_id |-> i] : i \in LookupIds}
    \cup {[op |-> "search_controls", query |-> q, frameworks |-> f, limit |-> l] :
            q \in Queries, f \in {None, List(<<"dora">>)}, l \in 1..MaxLimit}
    \cup {[op |-> "get_framework_controls", framework |-> k, include_descriptions |-> d] :
            k \in {"dora", UnknownKey}, d \in BOOLEAN}
    \cup {[op |-> "map_frameworks", source_framework |-> k, target_framework |-> t,
           source_control |-> None] :
            k \in {"iso_27001_2022", "dora"}, t \in {"dora", UnknownKey}}

LoadSample == LoadFrom(SampleFiles)

\* The call is entered: results = [] and the loop is before the first control.
ReaderBegin(r) ==
    /\ loaded
    /\ readers[r].pc = "idle"
    /\ \E c \in ReaderCalls :
        readers' = [readers EXCEPT ![r] = [pc |-> "scan", call |-> c, n |-> 1,
                                           results |-> <<>>]]
    /\ UNCHANGED <<loaded, dataset, call, ret, startup, exchange, side>>

Finished(reader, outcome) == [pc |-> "done", call |-> reader.call, ret |-> outcome]

\* One loop iteration of the reader's call (the whole of get_control), on
\* the dataset as it is when the step runs.
ScanStep(reader) ==
    LET c == reader.call
        n == reader.n
        upto == SubSeq(controls, 1, Min(n, Len(controls)))
    IN  CASE c.op = "get_control" -> Finished(reader, Return(get_control(c.control_id)))
          [] n > Len(controls) -> Finished(reader, Return(reader.results))
          [] c.op = "search_controls" ->
                LET one == SearchLoop(upto, n, reader.results, c.query, c.frameworks, c.limit)
                IN  IF one.tag = "raise" THEN Finished(reader, one)
                    ELSE IF /\ Len(one.value) > Len(reader.results)
                            /\ LimitReached(one.value, c.limit)
                    THEN Finished(reader, one)
                    ELSE [reader EXCEPT !.n = n + 1, !.results = one.value]
          [] c.op = "get_framework_controls" ->
                [reader EXCEPT !.n = n + 1,
                    !.results = FrameworkControlsLoop(upto, n, reader.results,
                                    c.framework, c.include_descriptions)]
          [] c.op = "map_frameworks" ->
                [reader EXCEPT !.n = n + 1,
                    !.results = MapLoop(upto, n, reader.results, c.source_framework,
                                    c.target_framework, c.source_control)]

\* Mutant of ReaderStep: `results` is one list shared by the scans in
\* progress instead of a local of each call.
ReaderStepSharedResults(r) ==
    /\ loaded
    /\ readers[r].pc = "scan"
    /\ LET new == ScanStep(readers[r])
       IN  readers' = [q \in Readers |->
                IF q = r THEN new
                ELSE IF readers[q].pc = "scan" /\ new.pc = "scan"
                THEN [readers[q] EXCEPT !.results = new.results]
                ELSE readers[q]]
    /\ UNCHANGED <<loaded, dataset, call, ret, startup, exchange, side>>

ReaderStep(r) ==
    /\ loaded
    /\ readers[r].pc = "scan"
    /\ readers' = [readers EXCEPT ![r] = ScanStep(readers[r])]
    /\ UNCHANGED <<loaded, dataset, call, ret, startup, exchange, side>>

\* The caller takes the result; the reader is free for another call.
ReaderReturn(r) ==
    /\ loaded
    /\ readers[r].pc = "done"
    /\ readers' = [readers EXCEPT ![r] = IdleReader]
    /\ UNCHANGED <<loaded, dataset, call, ret, startup, exchange, side>>

NextConcurrent ==
    \/ LoadSample
    \/ \E r \in Readers : ReaderBegin(r)
    \/ \E r \in Readers : ReaderStep(r)
    \/ \E r \in Readers : ReaderReturn(r)

SpecConcurrent == Init /\ [][NextConcurrent]_vars

(***************************************************************************)
(* The presentation adapters: the stdio call_tool, the HTTP call_tool      *)
(* (reached through mcp_endpoint) and the REST endpoints.  Each handler    *)
(* validates its arguments, calls the engine or not, and responds.         *)
(***************************************************************************)
DefaultLimit == 10

LimitFloor == 1

LimitCeiling == 100

\* dict.get(k, default)
GetDefault(d, k, default) == IF k \in DOMAIN d THEN d[k] ELSE default

\* str.strip() on a sequence of characters.
RECURSIVE LStrip(_)
LStrip(s) == IF s # <<>> /\ Head(s) = " " THEN LStrip(Tail(s)) ELSE s

RECURSIVE RStrip(_)
RStrip(s) ==
    IF s # <<>> /\ s[Len(s)] = " " THEN RStrip(SubSeq(s, 1, Len(s) - 1)) ELSE s

Strip(s) == RStrip(LStrip(s))

\* str.strip() on the keys and ids the model keeps whole.
StripName(k) ==
    CASE k = " dora" -> "dora"
      [] k = " " -> ""
      [] OTHER -> k

\* str(x or "").strip(), for a query and for a key or id.
StrippedText(v) == IF Truthy(v) THEN Strip(v.s) ELSE <<>>

StrippedName(v) == IF Truthy(v) THEN StripName(v.k) ELSE ""

DigitValue(c) ==
    CASE c = "0" -> 0 [] c = "1" -> 1 [] c = "2" -> 2 [] c = "3" -> 3 [] c = "4" -> 4
      [] c = "5" -> 5 [] c = "6" -> 6 [] c = "7" -> 7 [] c = "8" -> 8 [] c = "9" -> 9

IsDecimal(s) ==
    /\ s # <<>>
    /\ \A i \in 1..Len(s) : s[i] \in {"0", "1", "2", "3", "4", "5", "6", "7", "8", "9"}

RECURSIVE DecimalValue(_)
DecimalValue(s) ==
    IF s = <<>> THEN 0
    ELSE DecimalValue(SubSeq(s, 1, Len(s) - 1)) * 10 + DigitValue(s[Len(s)])

\* int(v): an int as it is, a str of digits parsed, ValueError for another
\* str, TypeError for None or a list.
PyInt(v) ==
    CASE v.tag = "int" -> Return(v.n)
      [] v.tag = "str" -> IF IsDecimal(v.s) THEN Return(DecimalValue(v.s))
                          ELSE Raise("ValueError")
      [] OTHER -> Raise("TypeError")

\* try: min(max(int(arguments.get("limit", 10) or 10), 1), 100)
\* except (ValueError, TypeError): 10
ClampedLimit(arguments) ==
    LET given == GetDefault(arguments, "limit", IntVal(DefaultLimit))
        n == PyInt(IF Truthy(given) THEN given ELSE IntVal(DefaultLimit))
    IN  IF n.tag = "raise" THEN DefaultLimit
        ELSE Min(Max(n.value, LimitFloor), LimitCeiling)

\* search_controls on what an adapter passes: query.lower() raises for a
\* query that is no str, and len(results) >= limit raises at the first hit
\* for a limit that is no number.
EngineSearch(query, fws, limit) ==
    IF query.tag # "str" THEN Raise("AttributeError")
    ELSE IF limit.tag = "int" THEN search_controls(query.s, fws, limit.n)
    ELSE LET first == search_controls(query.s, fws, 1)
         IN  IF first.tag = "return" /\ Len(first.value) > 0
             THEN Raise("TypeError")
             ELSE first

\* The engine call an adapter makes.
EngineCall(c) ==
    CASE c.op = "get_control" ->
            IF c.control_id.tag = "name" THEN Return(get_control(c.control_id.k))
            ELSE Return(None)
      [] c.op = "search_controls" -> EngineSearch(c.query, c.frameworks, c.limit)
      [] c.op = "get_framework_controls" ->
            Return(get_framework_controls(c.framework.k, c.include_descriptions))
      [] c.op = "map_frameworks" ->
            Return(map_frameworks(c.source_framework.k, c.target_framework.k,
                                  c.source_control))

\* The ways a handler ends: an "X is required" response, a "not found"
\* response, an exception it does not handle, or the engine call.
Reject(field) ==
    [response |-> [kind |-> "required", field |-> field],
     call |-> NoCall, ret |-> Return(None)]

NotFound(which, key) ==
    [response |-> [kind |-> "not_found", which |-> which, key |-> key],
     call |-> NoCall, ret |-> Return(None)]

Unhandled(exc) ==
    [response |-> [kind |-> "exception", exc |-> exc],
     call |-> NoCall, ret |-> Return(None)]

Invoke(c) ==
    LET r == EngineCall(c)
    IN  [response |-> IF r.tag = "raise" THEN [kind |-> "exception", exc |-> r.exc]
                      ELSE [kind |-> "result"],
         call |-> c, ret |-> r]

\* Mutant of Registered: the key is looked up in the table of display names.
RegisteredInNameTable(v) == v.tag = "name" /\ v.k \in DOMAIN framework_names

\* framework in scf_data.frameworks
Registered(v) == v.tag = "name" /\ v.k \in DOMAIN frameworks

\* else: raise ValueError(f"Unknown tool: {name}"), the end of the elif chain.
UnknownTool(name) == Unhandled("ValueError")

\* server.py call_tool
StdioCallTool(name, arguments) ==
    CASE name = "get_control" ->
            LET control_id == StrippedName(DictGet(arguments, "control_id"))
            IN  IF control_id = "" THEN Reject("control_id")
                ELSE Invoke([op |-> "get_control", control_id |-> Name(control_id)])
      [] name = "search_controls" ->
            LET query == StrippedText(DictGet(arguments, "query"))
            IN  IF query = <<>> THEN Reject("query")
                ELSE Invoke([op |-> "search_controls", query |-> Str(query),
                             frameworks |-> DictGet(arguments, "frameworks"),
                             limit |-> IntVal(ClampedLimit(arguments))])
      [] name = "get_framework_controls" ->
            LET framework == StrippedName(DictGet(arguments, "framework"))
                include_descriptions ==
                    Truthy(GetDefault(arguments, "include_descriptions", Bool(FALSE)))
            IN  IF framework = "" THEN Reject("framework")
                ELSE IF ~Registered(Name(framework))
                THEN NotFound("framework", Name(framework))
                ELSE Invoke([op |-> "get_framework_controls",
                             framework |-> Name(framework),
                             include_descriptions |-> include_descriptions])
      [] name = "map_frameworks" ->
            LET source_framework == StrippedName(DictGet(arguments, "source_framework"))
                target_framework == StrippedName(DictGet(arguments, "target_framework"))
            IN  IF source_framework = "" \/ target_framework = ""
                THEN Reject("source_framework and target_framework")
                ELSE IF ~Registered(Name(source_framework))
                THEN NotFound("source", Name(source_framework))
                ELSE IF ~Registered(Name(target_framework))
                THEN NotFound("target", Name(target_framework))
                ELSE Invoke([op |-> "map_frameworks",
                             source_framework |-> Name(source_framework),
                             target_framework |-> Name(target_framework),
                             source_control |-> DictGet(arguments, "source_control")])
      [] OTHER -> UnknownTool(name)

\* http_server.py call_tool; mcp_endpoint turns an exception into an error.
HttpCallTool(name, arguments) ==
    CASE name = "get_control" ->
            IF "control_id" \notin DOMAIN arguments THEN Unhandled("KeyError")
            ELSE Invoke([op |-> "get_control", control_id |-> arguments["control_id"]])
      [] name = "search_controls" ->
            IF "query" \notin DOMAIN arguments THEN Unhandled("KeyError")
            ELSE Invoke([op |-> "search_controls", query |-> arguments["query"],
                         frameworks |-> DictGet(arguments, "frameworks"),
                         limit |-> GetDefault(arguments, "limit", IntVal(DefaultLimit))])
      [] name = "get_framework_controls" ->
            IF "framework" \notin DOMAIN arguments THEN Unhandled("KeyError")
            ELSE LET framework == arguments["framework"]
                     include_descriptions ==
                         Truthy(GetDefault(arguments, "include_descriptions", Bool(FALSE)))
                 IN  IF ~Registered(framework) THEN NotFound("framework", framework)
                     ELSE Invoke([op |-> "get_framework_controls",
                                  framework |-> framework,
                                  include_descriptions |-> include_descriptions])
      [] name = "map_frameworks" ->
            IF \/ "source_framework" \notin DOMAIN arguments
               \/ "target_framework" \notin DOMAIN arguments
            THEN Unhandled("KeyError")
            ELSE LET source_framework == arguments["source_framework"]
                     target_framework == arguments["target_framework"]
                 IN  IF ~Registered(source_framework)
                     THEN NotFound("source", source_framework)
                     ELSE IF ~Registered(target_framework)
                     THEN NotFound("target", target_framework)
                     ELSE Invoke([op |-> "map_frameworks",
                                  source_framework |-> source_framework,
                                  target_framework |-> target_framework,
                                  source_control |-> DictGet(arguments, "source_control")])

\* POST /api/search
api_search_controls(body) ==
    LET query == GetDefault(body, "query", Str(<<>>))
    IN  IF ~Truthy(query) THEN Reject("query")
        ELSE Invoke([op |-> "search_controls", query |-> query,
                     frameworks |-> DictGet(body, "frameworks"),
                     limit |-> GetDefault(body, "limit", IntVal(DefaultLimit))])

\* GET /api/controls/{control_id}
api_get_control(control_id) ==
    Invoke([op |-> "get_control", control_id |-> Name(control_id)])

\* POST /api/map
api_map_frameworks(body) ==
    LET source_framework == DictGet(body, "source_framework")
        target_framework == DictGet(body, "target_framework")
    IN  IF ~Truthy(source_framework) \/ ~Truthy(target_framework)
        THEN Reject("source_framework and target_framework")
        ELSE IF ~Registered(source_framework)
        THEN NotFound("source", source_framework)
        ELSE IF ~Registered(target_framework)
        THEN NotFound("target", target_framework)
        ELSE Invoke([op |-> "map_frameworks",
                     source_framework |-> source_framework,
                     target_framework |-> target_framework,
                     source_control |-> DictGet(body, "source_control")])

\* The requests of the model: an argument may be left out, null, or a value.
Missing == [tag |-> "missing"]

Dict(f) == [k \in {x \in DOMAIN f : f[x] # Missing} |-> f[k]]

KeyArgs ==
    {Missing, None, Name(""), Name("dora"), Name(" dora"), Name("gdpr"),
     Name("iso_27001_2022"), Name(UnknownKey)}

QueryArgs == {Missing, None, Str(<<>>), Str(<<" ">>), Str(<<"k">>), Str(<<" ", "k">>)}

LimitArgs ==
    {Missing, None, Str(<<"2">>), Str(<<"a">>)}
    \cup {IntVal(n) : n \in (-1)..MaxLimit \cup {LimitCeiling, LimitCeiling + 1}}

ToolNames == {"get_control", "search_controls", "get_framework_controls", "map_frameworks"}

SearchArguments ==
    {Dict([query |-> q, frameworks |-> f, limit |-> l]) :
        q \in QueryArgs, f \in {Missing, List(<<"dora">>)}, l \in LimitArgs}

MapArguments ==
    {Dict([source_framework |-> k, target_framework |-> t, source_control |-> c]) :
        k \in KeyArgs, t \in KeyArgs, c \in {Missing, Str(Id51)}}

ArgumentsOf(name) ==
    CASE name = "get_control" ->
            {Dict([control_id |-> i]) :
                i \in {Missing, None, Name(""), Name("GOV-01"), Name("FAKE-999")}}
      [] name = "search_controls" -> SearchArguments
      [] name = "get_framework_controls" ->
            {Dict([framework |-> k, include_descriptions |-> d]) :
                k \in KeyArgs, d \in {Missing, Bool(TRUE)}}
      [] name = "map_frameworks" -> MapArguments

\* The handler has run: its response, and the engine call it made, if any.
Handle(entry, tool, arguments, outcome) ==
    /\ loaded
    /\ request = NoRequest
    /\ request' = [entry |-> entry, tool |-> tool, arguments |-> arguments]
    /\ response' = outcome.response
    /\ call' = outcome.call
    /\ ret' = outcome.ret
    /\ UNCHANGED <<loaded, dataset, readers, startup, side>>

StdioRequest ==
    \E name \in ToolNames : \E arguments \in ArgumentsOf(name) :
        Handle("stdio", name, arguments, StdioCallTool(name, arguments))

HttpRequest ==
    \E name \in ToolNames : \E arguments \in ArgumentsOf(name) :
        Handle("http", name, arguments, HttpCallTool(name, arguments))

RestSearch ==
    \E body \in SearchArguments :
        Handle("rest", "search_controls", body, api_search_controls(body))

RestGetControl ==
    \E control_id \in LookupIds :
        Handle("rest", "get_control", [control_id |-> Name(control_id)],
               api_get_control(control_id))

RestMapFrameworks ==
    \E body \in MapArguments :
        Handle("rest", "map_frameworks", body, api_map_frameworks(body))

\* The response is sent; the adapter is ready for the next request.
SendResponse ==
    /\ request # NoRequest
    /\ request' = NoRequest
    /\ response' = NoResponse
    /\ call' = NoCall
    /\ ret' = Return(None)
    /\ UNCHANGED <<loaded, dataset, readers, startup, side>>

NextAdapter ==
    \/ LoadSample
    \/ StdioRequest
    \/ HttpRequest
    \/ RestSearch
    \/ RestGetControl
    \/ RestMapFrameworks
    \/ SendResponse

SpecAdapter == Init /\ [][NextAdapter]_vars

\* Records with descriptions long enough for every branch of the snippet:
\* a match deep inside a long text, a match on the name only with a text
\* over the fallback length, a match after dotted capital I's, a match at
\* either edge of the window, and a text that is the match.
Rep(c, n) == [i \in 1..n |-> c]

SnippetTexts ==
    { [name |-> <<"E", "n">>,
       description |-> Rep("x", SnippetBefore + 10) \o <<"E", "n">>
                       \o Rep("x", SnippetAfter + 20)],
      [name |-> <<"K", "e", "N">>, description |-> Rep("x", SnippetFallback + 1)],
      [name |-> <<"k">>, description |-> Rep(IDot, SnippetBefore + 1) \o <<"k">>],
      [name |-> <<"k">>, description |-> <<"k">> \o Rep("x", SnippetAfter)],
      [name |-> <<"x">>,
       description |-> Rep("x", SnippetBefore) \o <<"k">> \o Rep("x", SnippetAfter + 1)],
      [name |-> <<"E", "n">>, description |-> <<"E", "n">>] }

SnippetRecords ==
    { [id |-> "GOV-01", name |-> Str(t.name), description |-> Str(t.description),
       weight |-> 5,
       framework_mappings |-> [k \in {"iso_27001_2022", "dora"} |->
                                 IF k = "dora" THEN List(<<ArtA>>) ELSE None]] :
        t \in SnippetTexts }

SnippetFiles == UNION {[1..n -> SnippetRecords] : n \in 0..MaxControls}

\* Searches over the files with long descriptions.
LoadSnippets == LoadFrom(SnippetFiles)

NextSnippet ==
    \/ LoadSnippets
    \/ SearchControls
    \/ HandBack

SpecSnippet == Init /\ [][NextSnippet]_vars

NextStartup ==
    \/ ReadControlsFile
    \/ BuildIdIndexStep
    \/ ReadReverseIndexFile
    \/ BuildFrameworkMetadataStep
    \/ GetControl
    \/ SearchControls
    \/ GetFrameworkControls
    \/ MapFrameworks
    \/ HandBack

SpecStartup == Init /\ [][NextStartup]_vars

Next ==
    \/ LoadData
    \/ GetControl
    \/ SearchControls
    \/ GetFrameworkControls
    \/ MapFrameworks
    \/ HandBack

Spec == Init /\ [][Next]_vars

\* The same calls on the files of SampleRecords.
NextSample ==
    \/ LoadSample
    \/ GetControl
    \/ SearchControls
    \/ GetFrameworkControls
    \/ MapFrameworks
    \/ HandBack

SpecSample == Init /\ [][NextSample]_vars

(***************************************************************************)
(* scripts/extract_scf_frameworks.py: the worksheet rows become control    *)
(* records and a reverse index.  A cell is None, a str, an int, a float or *)
(* a bool, as openpyxl hands it over with values_only=True; a framework    *)
(* column beyond the row's width is Missing.                               *)
(***************************************************************************)
MaxRows == 2

DefaultWeight == 5

LineFeed == "U+000A"

SuperscriptTwo == "U+00B2"

DecimalDigits == <<"0", "1", "2", "3", "4", "5", "6", "7", "8", "9">>

\* str(n) for an int.
RECURSIVE IntStr(_)
IntStr(n) ==
    IF n < 0 THEN <<"-">> \o IntStr(-n)
    ELSE IF n < 10 THEN <<DecimalDigits[n + 1]>>
    ELSE IntStr(n \div 10) \o <<DecimalDigits[(n % 10) + 1]>>

\* str(value) for a cell.
PyStr(v) ==
    CASE v.tag = "str" -> v.s
      [] v.tag = "int" -> IntStr(v.n)
      [] v.tag = "float" -> IntStr(v.whole) \o <<".", "0">>
      [] v.tag = "bool" -> IF v.b THEN <<"T", "r", "u", "e">> ELSE <<"F", "a", "l", "s", "e">>
      [] v.tag = "None" -> <<"N", "o", "n", "e">>

\* str.isdigit(): not empty and digits only; a superscript digit is a digit.
IsDigit(s) ==
    /\ s # <<>>
    /\ \A i \in 1..Len(s) : s[i] \in Range(DecimalDigits) \cup {SuperscriptTwo}

\* str.strip() with no argument: blanks and line feeds go, at both ends.
IsSpace(c) == c \in {" ", LineFeed}

RECURSIVE LStripSpace(_)
LStripSpace(s) == IF s # <<>> /\ IsSpace(Head(s)) THEN LStripSpace(Tail(s)) ELSE s

RECURSIVE RStripSpace(_)
RStripSpace(s) ==
    IF s # <<>> /\ IsSpace(s[Len(s)]) THEN RStripSpace(SubSeq(s, 1, Len(s) - 1)) ELSE s

StripSpace(s) == RStripSpace(LStripSpace(s))

\* text.split("\n") and re.split(r"[,;]", line): the pieces between separators.
RECURSIVE Split(_, _)
Split(s, seps) ==
    IF \A i \in 1..Len(s) : s[i] \notin seps THEN <<s>>
    ELSE LET i == CHOOSE j \in 1..Len(s) :
                      s[j] \in seps /\ \A k \in 1..(j - 1) : s[k] \notin seps
         IN  <<SubSeq(s, 1, i - 1)>> \o Split(SubSeq(s, i + 1, Len(s)), seps)

NoneWord == <<"n", "o", "n", "e">>

\* The inner loop of parse_cell_value: the stripped, non-empty parts of a line.
PartsOf(line) ==
    LET parts == Split(line, {",", ";"})
        stripped == [i \in 1..Len(parts) |-> StripSpace(parts[i])]
    IN  SelectSeq(stripped, LAMBDA part : part # <<>>)

\* The outer loop of parse_cell_value.
RECURSIVE ControlsOfLines(_)
ControlsOfLines(lines) ==
    IF lines = <<>> THEN <<>>
    ELSE LET line == StripSpace(Head(lines))
         IN  (IF line # <<>> /\ Lower(line) # NoneWord THEN PartsOf(line) ELSE <<>>)
             \o ControlsOfLines(Tail(lines))

parse_cell_value(value) ==
    IF ~Truthy(value) THEN <<>>
    ELSE LET text == StripSpace(PyStr(value))
         IN  IF text = <<>> \/ Lower(text) = NoneWord THEN <<>>
             ELSE ControlsOfLines(Split(text, {LineFeed}))

\* Mutant of MappingsOrNone: the parsed list is stored as it is.
MappingsAsParsed(mappings) == List(mappings)

\* mappings if mappings else None
MappingsOrNone(mappings) == IF mappings # <<>> THEN List(mappings) ELSE None

\* FRAMEWORK_COLUMNS: the framework key of every mapped column, in column order.
FRAMEWORK_COLUMNS == MappingKeyOrder

\* int(row[12]) if row[12] and str(row[12]).isdigit() else 5
WeightOf(cell) ==
    IF Truthy(cell) /\ IsDigit(PyStr(cell)) THEN PyInt(cell) ELSE Return(DefaultWeight)

\* str(cell).strip() if cell else default
TextOr(cell, default) == IF Truthy(cell) THEN StripSpace(PyStr(cell)) ELSE default

\* The row is skipped: no SCF #, or the header's.
SkipRow(row) ==
    \/ ~Truthy(row.scf)
    \/ StrippedName(row.scf) \in {"", "SCF #"}

\* The control dict of a row that is not skipped.
ControlOf(row) ==
    [id |-> StrippedName(row.scf),
     domain |-> Str(TextOr(row.domain, <<>>)),
     name |-> Str(TextOr(row.name, <<>>)),
     description |-> Str(TextOr(row.name, <<>>)),
     weight |-> WeightOf(row.weight).value,
     pptdf |-> Str(TextOr(row.pptdf, <<>>)),
     validation_cadence |-> Str(TextOr(row.cadence, <<"A", "n", "n", "u", "a", "l">>)),
     framework_mappings |->
        [fw_id \in Range(FRAMEWORK_COLUMNS) |->
            MappingsOrNone(parse_cell_value(
                IF row.cells[fw_id] = Missing THEN None ELSE row.cells[fw_id]))]]

\* for row in ws.iter_rows(...): the controls so far, or the exception of int().
RECURSIVE ExtractLoop(_, _, _)
ExtractLoop(rows, n, acc) ==
    IF n > Len(rows) THEN Return(acc)
    ELSE IF SkipRow(rows[n]) THEN ExtractLoop(rows, n + 1, acc)
    ELSE IF WeightOf(rows[n].weight).tag = "raise" THEN WeightOf(rows[n].weight)
    ELSE ExtractLoop(rows, n + 1, Append(acc, ControlOf(rows[n])))

extract_controls(rows) == ExtractLoop(rows, 1, <<>>)

\* The cells of the model.
WeightCells ==
    {None, IntVal(0), IntVal(7), IntVal(10), IntVal(15), Float(7), Bool(TRUE),
     Str(<<"0">>), Str(<<"7">>), Str(<<"1", "1">>), Str(<<"x">>), Str(<<" ", "7">>),
     Str(<<SuperscriptTwo>>)}

MappingCells ==
    {None, Missing, Str(<<>>), IntVal(0), IntVal(5), Bool(TRUE),
     Str(<<"N", "o", "n", "e">>), Str(<<" ", ",", " ">>), Str(<<";">>), Str(<<LineFeed>>),
     Str(ArtA), Str(ArtA \o <<LineFeed>> \o ArtB), Str(ArtA \o <<",", " ">> \o ArtA),
     Str(<<" ">> \o ArtA \o <<";", ";", ",">> \o ArtB \o <<" ">>),
     Str(<<"N", "O", "N", "E", LineFeed>> \o ArtB)}

ScfCells == {None, Name(""), Name(" "), Name("SCF #"), Name("GOV-01"), Name("GOV-02")}

PlainRow ==
    [scf |-> Name("GOV-01"), domain |-> Str(<<"G">>), name |-> Str(<<" ", "k">>),
     weight |-> IntVal(7), pptdf |-> None, cadence |-> None,
     cells |-> [k \in Range(FRAMEWORK_COLUMNS) |-> IF k = "dora" THEN Str(ArtA) ELSE None]]

\* Rows that differ from PlainRow in one respect: the weight cell, the cell of
\* one framework column, or the SCF # and name cells.
SheetRows ==
    {[PlainRow EXCEPT !.weight = w] : w \in WeightCells}
    \cup {[PlainRow EXCEPT !.cells["dora"] = c] : c \in MappingCells}
    \cup {[PlainRow EXCEPT !.cells["gdpr"] = c] : c \in {Missing, Str(ArtA)}}
    \cup {[PlainRow EXCEPT !.scf = s, !.name = n] : s \in ScfCells, n \in {None, Str(<<"E", "n">>)}}

Worksheets == UNION {[1..n -> SheetRows] : n \in 0..MaxRows}

\* load_workbook(SCF_XLSX)["SCF 2025.4"]
OpenWorksheet ==
    /\ ~extracted.done
    /\ ws = <<>>
    /\ \E sheet \in Worksheets : ws' = sheet
    /\ UNCHANGED <<loaded, dataset, call, ret, readers, startup, exchange, extracted,
                   environ, SPECIALIZED_EXTRACTORS, history_file, vh>>

\* main(): extract_controls, build_reverse_index and the files written; an
\* exception of extract_controls ends the script before anything is written.
ExtractMain ==
    /\ ~extracted.done
    /\ LET result == extract_controls(ws)
       IN  extracted' =
              IF result.tag = "raise"
              THEN [done |-> TRUE, raised |-> result.exc,
                    controls |-> <<>>, reverse_index |-> <<>>]
              ELSE [done |-> TRUE, raised |-> "none",
                    controls |-> result.value,
                    reverse_index |-> build_reverse_index(result.value)]
    /\ UNCHANGED <<loaded, dataset, call, ret, readers, startup, exchange, ws,
                   environ, SPECIALIZED_EXTRACTORS, history_file, vh>>

\* The files main() wrote, if it wrote them.
ExtractedFiles == IF extracted.done /\ extracted.raised = "none" THEN {extracted.controls} ELSE {}

\* SCFData() on the files the extraction wrote.
LoadExtracted == LoadFrom(ExtractedFiles)

NextExtract ==
    \/ OpenWorksheet
    \/ ExtractMain
    \/ LoadExtracted

SpecExtract == Init /\ [][NextExtract]_vars

(***************************************************************************)
(* tools/version_tracking.py: VersionHistory.  A change is a dict that may *)
(* leave out any of its fields; a date is a str, compared as Python        *)
(* compares strs (character by character, a prefix first).                 *)
(***************************************************************************)
MaxChanges == 2

\* A query is only made while the file has been opened fewer than MaxReads times
\* or the history is loaded.
MaxReads == 2

\* ord(c) for the characters of a date or a release.
Ord(c) ==
    CASE c = "-" -> 45
      [] c = "." -> 46
      [] c \in Range(DecimalDigits) -> 48 + DigitValue(c)

\* a < b on strs.
StrLess(a, b) ==
    \E i \in 1..(Len(b)) :
        /\ i <= Len(a) + 1
        /\ \A j \in 1..(i - 1) : a[j] = b[j]
        /\ (i = Len(a) + 1 \/ Ord(a[i]) < Ord(b[i]))

\* change.get("effective_date", "")
EffectiveDate(change) == GetDefault(change, "effective_date", <<>>)

\* change.get("frameworks_affected", [])
FrameworksAffected(change) == GetDefault(change, "frameworks_affected", <<>>)

\* sorted(changes, key=effective_date): ascending, and changes of one date stay
\* in the order they had.
RECURSIVE SortedByDateAscending(_)
SortedByDateAscending(changes) ==
    IF changes = <<>> THEN <<>>
    ELSE LET rest == SortedByDateAscending(SubSeq(changes, 1, Len(changes) - 1))
             x == changes[Len(changes)]
             before == SelectSeq(rest, LAMBDA c : ~StrLess(EffectiveDate(x), EffectiveDate(c)))
             after == SelectSeq(rest, LAMBDA c : StrLess(EffectiveDate(x), EffectiveDate(c)))
         IN  before \o <<x>> \o after

\* results.sort(key=effective_date, reverse=True): descending, and changes of
\* one date stay in the order they had (the sort is stable).
RECURSIVE SortedByDate(_)
SortedByDate(changes) ==
    IF changes = <<>> THEN <<>>
    ELSE LET rest == SortedByDate(SubSeq(changes, 1, Len(changes) - 1))
             x == changes[Len(changes)]
             before == SelectSeq(rest, LAMBDA c : ~StrLess(EffectiveDate(c), EffectiveDate(x)))
             after == SelectSeq(rest, LAMBDA c : StrLess(EffectiveDate(c), EffectiveDate(x)))
         IN  before \o <<x>> \o after

\* results[:limit] for an int limit: a negative limit counts from the end.
UpTo(results, limit) ==
    IF limit >= 0 THEN SubSeq(results, 1, Min(limit, Len(results)))
    ELSE SubSeq(results, 1, Max(Len(results) + limit, 0))

\* An entry of "changes" that is a JSON object (a dict); any other JSON value
\* is held as a tagged value.
IsDict(change) == "tag" \notin DOMAIN change

\* The per-control index as the loop of _ensure_loaded leaves it, starting
\* from the index there was.  change.get raises AttributeError on an entry
\* that is not a dict, and the loop ends there.
RECURSIVE IndexChanges(_, _, _)
IndexChanges(changes, n, index) ==
    IF n > Len(changes) THEN index
    ELSE IF ~IsDict(changes[n]) THEN index
    ELSE LET cid == GetDefault(changes[n], "control_id", "")
             had == IF cid \in DOMAIN index THEN index[cid] ELSE <<>>
         IN  IndexChanges(changes, n + 1,
                [c \in DOMAIN index \cup {cid} |->
                    IF c = cid THEN Append(had, changes[n]) ELSE index[c]])

\* The index loop of _ensure_loaded raises on this file.
LoadRaises(file) ==
    /\ file.exists = "yes"
    /\ \E n \in DOMAIN GetDefault(file.data, "changes", <<>>) :
          ~IsDict(GetDefault(file.data, "changes", <<>>)[n])

\* _ensure_loaded: the object after it, given the file on disk.  self._loaded
\* is set after the index loop, so not when the loop raises.
EnsureLoaded(h, file) ==
    IF h._loaded THEN h
    ELSE IF file.exists = "yes"
    THEN [h EXCEPT !.history = GetDefault(file.data, "changes", <<>>),
                   !.control_history =
                        IndexChanges(GetDefault(file.data, "changes", <<>>), 1,
                                     h.control_history),
                   !._loaded = ~LoadRaises(file),
                   !.reads = h.reads + 1]
    ELSE [h EXCEPT !._loaded = TRUE]

\* The three queries on an object that has gone through _ensure_loaded.
get_control_history(h, control_id) ==
    SortedByDateAscending(GetDefault(h.control_history, control_id, <<>>))

get_recent_changes(h, since, framework, limit) ==
    LET Kept(change) ==
            /\ ~StrLess(EffectiveDate(change), since)
            /\ ~(Truthy(framework)
                   /\ ~ListContains(FrameworksAffected(change), framework.k))
    IN  UpTo(SortedByDate(SelectSeq(h.history, Kept)), limit)

get_framework_changes(h, framework, since, limit) ==
    LET Kept(change) ==
            /\ ListContains(FrameworksAffected(change), framework)
            /\ ~(Truthy(since) /\ StrLess(EffectiveDate(change), since.s))
    IN  UpTo(SortedByDate(SelectSeq(h.history, Kept)), limit)

\* The changes of the model.
Date1 == <<"1">>

Date10 == <<"1", "0">>

Date2 == <<"2">>

\* A dict without some of its keys.
Without(d, keys) == [k \in DOMAIN d \ keys |-> d[k]]

Changes ==
    { [control_id |-> "GOV-01", effective_date |-> Date10,
       frameworks_affected |-> <<"dora">>, scf_version |-> Date1],
      [control_id |-> "GOV-01", effective_date |-> Date2,
       frameworks_affected |-> <<"dora", "gdpr">>, scf_version |-> Date2],
      [control_id |-> "GOV-02", effective_date |-> Date10,
       frameworks_affected |-> <<"gdpr">>, scf_version |-> Date2],
      Without([control_id |-> "GOV-02", effective_date |-> Date1,
               frameworks_affected |-> <<>>, scf_version |-> Date1],
              {"frameworks_affected"}),
      Without([control_id |-> "", effective_date |-> <<>>,
               frameworks_affected |-> <<"dora">>, scf_version |-> <<>>],
              {"control_id", "effective_date", "scf_version"}) }

\* version-history.json: {"changes": [...]}, or a document without the key.
HistoryDocuments ==
    {[changes |-> cs] : cs \in UNION {[1..n -> Changes] : n \in 0..MaxChanges}}
    \cup {Without([changes |-> <<>>], {"changes"})}

\* A value of "changes" that is not an object: a JSON string.
NotAnObject == Str(<<"k">>)

\* Documents whose "changes" hold an entry that is not an object.
DamagedDocuments ==
    {[changes |-> cs] :
        cs \in {s \in UNION {[1..n -> Changes \cup {NotAnObject}] : n \in 1..MaxChanges} :
                    \E i \in DOMAIN s : s[i] = NotAnObject}}

\* The file is there, or it is not, before the first query.
HistoryFileDecided ==
    /\ history_file = NotWritten
    /\ \/ history_file' = [exists |-> "no"]
       \/ \E data \in HistoryDocuments : history_file' = [exists |-> "yes", data |-> data]
    /\ UNCHANGED <<loaded, dataset, call, ret, readers, startup, exchange, ws, extracted,
                   environ, SPECIALIZED_EXTRACTORS, vh>>

\* The file is there and one of its entries is not an object.
HistoryFileDamaged ==
    /\ history_file = NotWritten
    /\ \E data \in DamagedDocuments : history_file' = [exists |-> "yes", data |-> data]
    /\ UNCHANGED <<loaded, dataset, call, ret, readers, startup, exchange, ws, extracted,
                   environ, SPECIALIZED_EXTRACTORS, vh>>

HistoryIds == {"GOV-01", "GOV-02", "", "FAKE-999"}

SinceDates == {<<>>, Date1, Date10, Date2}

\* A query: _ensure_loaded, then the answer (taken from the loaded object); the
\* exception of _ensure_loaded goes to the caller.
Queried(c, answer) ==
    /\ history_file # NotWritten
    /\ vh._loaded \/ vh.reads < MaxReads
    /\ LET raised == ~vh._loaded /\ LoadRaises(history_file)
       IN  vh' = [EnsureLoaded(vh, history_file) EXCEPT !.call = c,
                           !.exc = IF raised THEN "AttributeError" ELSE "none",
                           !.ret = IF raised THEN <<>> ELSE answer]
    /\ UNCHANGED <<loaded, dataset, call, ret, readers, startup, exchange, ws, extracted,
                   environ, SPECIALIZED_EXTRACTORS, history_file>>

GetControlHistory ==
    \E control_id \in HistoryIds :
        Queried([op |-> "get_control_history", control_id |-> control_id],
                get_control_history(EnsureLoaded(vh, history_file), control_id))

GetRecentChanges ==
    \E since \in SinceDates, framework \in {None, Name(""), Name("dora"), Name("gdpr")},
       limit \in Limits :
        Queried([op |-> "get_recent_changes", since |-> since, framework |-> framework,
                 limit |-> limit],
                get_recent_changes(EnsureLoaded(vh, history_file), since, framework, limit))

GetFrameworkChanges ==
    \E framework \in {"dora", "gdpr", UnknownKey},
       since \in {None} \cup {Str(s) : s \in SinceDates}, limit \in Limits :
        Queried([op |-> "get_framework_changes", framework |-> framework, since |-> since,
                 limit |-> limit],
                get_framework_changes(EnsureLoaded(vh, history_file), framework, since, limit))

NextHistory ==
    \/ HistoryFileDecided
    \/ HistoryFileDamaged
    \/ GetControlHistory
    \/ GetRecentChanges
    \/ GetFrameworkChanges

SpecHistory == Init /\ [][NextHistory]_vars

(***************************************************************************)
(* The premium tools: the gate and the handlers of version_tracking.py,    *)
(* reached through PREMIUM_HANDLERS, and server.py's call_tool asked for   *)
(* the same tool names.                                                    *)
(***************************************************************************)
DefaultChangeLimit == 50

ChangeLimitCeiling == 200

PremiumToolNames == {"get_control_history", "diff_control", "get_framework_changes"}

\* os.environ.get("PREMIUM_ENABLED") == "true"
is_premium_enabled == environ = Name("true")

upgrade_response == [kind |-> "upgrade", premium |-> FALSE]

\* What a handler leaves: its response and the VersionHistory object.
Answer(resp, h) == [response |-> resp, vh |-> h]

Current == <<"c", "u", "r", "r", "e", "n", "t">>

\* a <= b on strs.
StrLessEq(a, b) == a = b \/ StrLess(a, b)

handle_get_control_history(arguments) ==
    IF ~is_premium_enabled THEN Answer(upgrade_response, vh)
    ELSE LET control_id == StrippedName(DictGet(arguments, "control_id"))
             h == EnsureLoaded(vh, history_file)
             history == get_control_history(h, control_id)
         IN  IF control_id = "" THEN Answer([kind |-> "required", field |-> "control_id"], vh)
             ELSE Answer([kind |-> "versions", control_id |-> control_id,
                          versions |-> history, total_versions |-> Len(history)], h)

handle_diff_control(arguments) ==
    IF ~is_premium_enabled THEN Answer(upgrade_response, vh)
    ELSE LET control_id == StrippedName(DictGet(arguments, "control_id"))
             from_version == StrippedText(DictGet(arguments, "from_version"))
             given == DictGet(arguments, "to_version")
             to_version == IF Truthy(given) THEN Strip(given.s) ELSE Current
             h == EnsureLoaded(vh, history_file)
             history == get_control_history(h, control_id)
             Version(c) == GetDefault(c, "scf_version", <<>>)
             Between(c) == /\ StrLessEq(from_version, Version(c))
                           /\ (to_version = Current \/ StrLessEq(Version(c), to_version))
         IN  IF control_id = "" \/ from_version = <<>>
             THEN Answer([kind |-> "required", field |-> "control_id and from_version"], vh)
             ELSE IF \A i \in 1..Len(history) :
                        ~("scf_version" \in DOMAIN history[i]
                          /\ history[i].scf_version \in {from_version, to_version})
             THEN Answer([kind |-> "diff", control_id |-> control_id, diff |-> None], h)
             ELSE Answer([kind |-> "diff", control_id |-> control_id,
                          changes_between |-> SelectSeq(history, Between)], h)

handle_get_framework_changes(arguments) ==
    IF ~is_premium_enabled THEN Answer(upgrade_response, vh)
    ELSE LET framework == StrippedName(DictGet(arguments, "framework"))
             since == DictGet(arguments, "since")
             given == GetDefault(arguments, "limit", IntVal(DefaultChangeLimit))
             n == PyInt(IF Truthy(given) THEN given ELSE IntVal(DefaultChangeLimit))
             h == EnsureLoaded(vh, history_file)
         IN  IF n.tag = "raise" THEN Answer([kind |-> "exception", exc |-> n.exc], vh)
             ELSE IF framework = "" THEN Answer([kind |-> "required", field |-> "framework"], vh)
             ELSE LET limit == Min(Max(n.value, 1), ChangeLimitCeiling)
                      changes == get_framework_changes(h, framework, since, limit)
                  IN  Answer([kind |-> "changes", framework |-> framework,
                              changes |-> changes, total |-> Len(changes)], h)

\* PREMIUM_HANDLERS[name](arguments)
PREMIUM_HANDLERS(name, arguments) ==
    CASE name = "get_control_history" -> handle_get_control_history(arguments)
      [] name = "diff_control" -> handle_diff_control(arguments)
      [] name = "get_framework_changes" -> handle_get_framework_changes(arguments)

PremiumArgumentsOf(name) ==
    CASE name = "get_control_history" ->
            {Dict([control_id |-> i]) : i \in {Missing, Name(""), Name("GOV-01")}}
      [] name = "diff_control" ->
            {Dict([control_id |-> i, from_version |-> f, to_version |-> t]) :
                i \in {Missing, Name("GOV-01")}, f \in {Missing, Str(Date1), Str(Date2)},
                t \in {Missing, Str(Date10)}}
      [] name = "get_framework_changes" ->
            {Dict([framework |-> k, since |-> s, limit |-> l]) :
                k \in {Missing, Name("dora")}, s \in {Missing, Str(Date10)},
                l \in {Missing, IntVal(0), IntVal(1), Str(<<"a">>)}}

EnvironValues == {None, Name("true"), Name("TRUE"), Name("false"), Name("1")}

\* The process starts with PREMIUM_ENABLED set to some value, or unset.
SetEnviron ==
    /\ request = NoRequest
    /\ \E value \in EnvironValues : environ' = value
    /\ UNCHANGED <<loaded, dataset, call, ret, readers, startup, exchange, ws, extracted,
                   SPECIALIZED_EXTRACTORS, history_file, vh>>

\* server.py's call_tool is asked for a premium tool.
PremiumRequest ==
    /\ loaded
    /\ request = NoRequest
    /\ history_file # NotWritten
    /\ \E name \in PremiumToolNames : \E arguments \in PremiumArgumentsOf(name) :
          LET outcome == StdioCallTool(name, arguments)
          IN  /\ request' = [entry |-> "stdio", tool |-> name, arguments |-> arguments]
              /\ response' = outcome.response
              /\ call' = outcome.call
              /\ ret' = outcome.ret
    /\ UNCHANGED <<loaded, dataset, readers, startup, ws, extracted, environ,
                   SPECIALIZED_EXTRACTORS, history_file, vh>>

\* A handler of PREMIUM_HANDLERS is called with the arguments.
PremiumHandlerCall ==
    /\ request = NoRequest
    /\ history_file # NotWritten
    /\ \E name \in PremiumToolNames : \E arguments \in PremiumArgumentsOf(name) :
          LET answer == PREMIUM_HANDLERS(name, arguments)
          IN  /\ request' = [entry |-> "handler", tool |-> name, arguments |-> arguments]
              /\ response' = answer.response
              /\ vh' = answer.vh
    /\ UNCHANGED <<loaded, dataset, call, ret, readers, startup, ws, extracted, environ,
                   SPECIALIZED_EXTRACTORS, history_file>>

NextPremium ==
    \/ LoadSample
    \/ HistoryFileDecided
    \/ SetEnviron
    \/ PremiumRequest
    \/ PremiumHandlerCall
    \/ SendResponse

SpecPremium == Init /\ [][NextPremium]_vars

(***************************************************************************)
(* extractors/registry.py: the global dict SPECIALIZED_EXTRACTORS, written *)
(* by the decorator register_extractor(p) and read by get_extractor(p).    *)
(***************************************************************************)
\* Mutant of register_extractor: setdefault, the first class of a pattern stays.
register_extractor_once(standard_pattern, cls) ==
    [p \in DOMAIN SPECIALIZED_EXTRACTORS \cup {standard_pattern} |->
        IF p \in DOMAIN SPECIALIZED_EXTRACTORS THEN SPECIALIZED_EXTRACTORS[p] ELSE cls]

\* SPECIALIZED_EXTRACTORS[standard_pattern] = cls: the registry after it.
register_extractor(standard_pattern, cls) ==
    [p \in DOMAIN SPECIALIZED_EXTRACTORS \cup {standard_pattern} |->
        IF p = standard_pattern THEN cls ELSE SPECIALIZED_EXTRACTORS[p]]

\* SPECIALIZED_EXTRACTORS.get(standard_pattern)
get_extractor(standard_pattern) ==
    IF standard_pattern \in DOMAIN SPECIALIZED_EXTRACTORS
    THEN Name(SPECIALIZED_EXTRACTORS[standard_pattern])
    ELSE None

Patterns == {"", "iso_27001", "ISO_27001", "soc2"}

ExtractorClasses == {"ISO27001Extractor", "SOC2Extractor"}

\* @register_extractor(p) applied to a class: the decorator returns the class.
RegisterExtractor ==
    /\ \E standard_pattern \in Patterns, cls \in ExtractorClasses :
          /\ SPECIALIZED_EXTRACTORS' = register_extractor(standard_pattern, cls)
          /\ call' = [op |-> "register_extractor", standard_pattern |-> standard_pattern,
                      cls |-> cls]
          /\ ret' = Return(Name(cls))
    /\ UNCHANGED <<loaded, dataset, readers, startup, exchange, ws, extracted, environ,
                   history_file, vh>>

GetExtractor ==
    /\ \E standard_pattern \in Patterns :
          /\ call' = [op |-> "get_extractor", standard_pattern |-> standard_pattern]
          /\ ret' = Return(get_extractor(standard_pattern))
    /\ UNCHANGED <<loaded, dataset, readers, startup, exchange, side>>

NextRegistry ==
    \/ RegisterExtractor
    \/ GetExtractor

SpecRegistry == Init /\ [][NextRegistry]_vars

(***************************************************************************)
(* A data file whose records may hold a null or an empty name or           *)
(* description (json null, or ""), searched with search_controls.          *)
(***************************************************************************)
NullableTexts == {None, Str(<<>>), Str(<<"K", "e", "N">>)}

NullableRecords ==
    { [id |-> i, name |-> n, description |-> d, weight |-> 5, framework_mappings |-> m] :
        i \in ControlIds, n \in NullableTexts, d \in NullableTexts,
        m \in {mm \in Mappings : "gdpr" \notin DOMAIN mm /\ mm["dora"] = List(<<ArtA>>)} }

NullableFiles == UNION {[1..n -> NullableRecords] : n \in 0..MaxControls}

LoadNullable == LoadFrom(NullableFiles)

NextNullFields ==
    \/ LoadNullable
    \/ SearchControls
    \/ HandBack

SpecNullFields == Init /\ [][NextNullFields]_vars

(***************************************************************************)
(* What the claims say, stated over the stored control list independently  *)
(* of the loops above.                                                     *)
(***************************************************************************)
Indices == 1..Len(controls)

\* The i-th smallest element of a set S of indices.
Nth(S, i) == CHOOSE n \in S : Cardinality({m \in S : m < n}) = i - 1

\* The control's mapping for key k is non-null and non-empty.
IsMapped(ctrl, k) ==
    /\ k \in DOMAIN ctrl.framework_mappings
    /\ ctrl.framework_mappings[k].tag = "list"
    /\ ctrl.framework_mappings[k].items # <<>>

\* lower(field) contains lower(query); a null field contains nothing but "".
FieldHas(field, query) ==
    IF field.tag = "str" THEN Contains(Lower(field.s), Lower(query))
    ELSE query = <<>>

TextQualifies(ctrl, query) ==
    FieldHas(ctrl.name, query) \/ FieldHas(ctrl.description, query)

\* The controls search_controls(query, fws, _) may return.
Qualifying(query, fws) ==
    {n \in Indices :
        /\ TextQualifies(controls[n], query)
        /\ (fws.tag = "list" /\ fws.items # <<>>
              => \E i \in 1..Len(fws.items) : IsMapped(controls[n], fws.items[i]))}

\* A search hit reports control n.
HitOf(hit, n) ==
    /\ hit.control_id = controls[n].id
    /\ hit.name = controls[n].name

Searched == loaded /\ call.op = "search_controls"

(***************************************************************************)
(* C1 (as stated): for every control c of the loaded dataset               *)
(* get_control(c.id) returns exactly c, and an id no control has yields    *)
(* None without raising.  Refuted by a file in which an id repeats.        *)
(***************************************************************************)
C1_EveryControlIsReturned ==
    (loaded /\ call.op = "get_control") =>
        /\ \A n \in Indices :
              controls[n].id = call.control_id => ret = Return(controls[n])
        /\ (\A n \in Indices : controls[n].id # call.control_id) => ret = Return(None)

(***************************************************************************)
(* C1 (amended): get_control(c.id) returns exactly c for every control c   *)
(* that no later record of the list shares its id with (so for every       *)
(* control when ids are unique); an id no control has yields None, and     *)
(* get_control never raises.                                               *)
(***************************************************************************)
C1_LastControlOfIdIsReturned ==
    (loaded /\ call.op = "get_control") =>
        /\ ret.tag = "return"
        /\ \A n \in Indices :
              (/\ controls[n].id = call.control_id
               /\ \A m \in (n + 1)..Len(controls) : controls[m].id # call.control_id)
              => ret = Return(controls[n])
        /\ (\A n \in Indices : controls[n].id # call.control_id) => ret = Return(None)

\* A lookup of an id that two different records carry returned the later one.
C1_Witness ==
    /\ loaded
    /\ call.op = "get_control"
    /\ Len(controls) = 2
    /\ controls[1].id = call.control_id
    /\ controls[2].id = call.control_id
    /\ controls[1] # controls[2]
    /\ ret = Return(controls[2])

(***************************************************************************)
(* C2: for a limit >= 1, search_controls returns exactly the first         *)
(* min(limit, n) of the n qualifying controls (text match on lower-cased   *)
(* name or description, plus the framework filter when a non-empty list is *)
(* given), in stored order: never more than limit hits, never a            *)
(* non-qualifying control, never a later control ahead of an earlier one.  *)
(***************************************************************************)
C2_SearchReturnsFirstQualifying ==
    (Searched /\ call.limit >= 1) =>
        LET Q == Qualifying(call.query, call.frameworks)
        IN  /\ ret.tag = "return"
            /\ Len(ret.value) = Min(call.limit, Cardinality(Q))
            /\ \A i \in 1..Len(ret.value) : HitOf(ret.value[i], Nth(Q, i))

\* A filtered search with limit 1 passed over a control that matches the text
\* but not the filter and returned the next one.
C2_Witness ==
    /\ Searched
    /\ call.limit = 1
    /\ Truthy(call.frameworks)
    /\ Len(controls) >= 2
    /\ TextQualifies(controls[1], call.query)
    /\ 1 \notin Qualifying(call.query, call.frameworks)
    /\ 2 \in Qualifying(call.query, call.frameworks)
    /\ Len(ret.value) = 1
    /\ HitOf(ret.value[1], 2)
    /\ controls[1].id # controls[2].id

\* Control n is among the hits.
Appears(n) == \E i \in 1..Len(ret.value) : HitOf(ret.value[i], n)

\* The number of text-matching controls stored before control n.
MatchesBefore(n) ==
    Cardinality({m \in 1..(n - 1) : TextQualifies(controls[m], call.query)})

(***************************************************************************)
(* C3 (as stated): every control that matches the text and has no more     *)
(* than `limit` matching controls before it appears in                     *)
(* search_controls(query, None, limit).  Refuted when exactly `limit`      *)
(* matching controls precede it.                                           *)
(***************************************************************************)
C3_AppearsIfAtMostLimitPrecede ==
    (Searched /\ call.frameworks = None) =>
        \A n \in Indices :
            (TextQualifies(controls[n], call.query) /\ MatchesBefore(n) <= call.limit)
            => Appears(n)

(***************************************************************************)
(* C3 (amended): every control that matches the text and has fewer than    *)
(* `limit` matching controls before it appears in                          *)
(* search_controls(query, None, limit).                                    *)
(***************************************************************************)
C3_AppearsIfFewerThanLimitPrecede ==
    (Searched /\ call.frameworks = None) =>
        /\ ret.tag = "return"
        /\ \A n \in Indices :
              (TextQualifies(controls[n], call.query) /\ MatchesBefore(n) < call.limit)
              => Appears(n)

\* An unfiltered search with limit 2 returned the second of two different
\* matching controls, which has one match before it.
C3_Witness ==
    /\ Searched
    /\ call.frameworks = None
    /\ call.limit = 2
    /\ Len(controls) >= 2
    /\ TextQualifies(controls[2], call.query)
    /\ MatchesBefore(2) = 1
    /\ controls[1].name # controls[2].name
    /\ Len(ret.value) = 2
    /\ HitOf(ret.value[2], 2)

(***************************************************************************)
(* C4: search_controls with a limit of 0 or below returns the empty list,  *)
(* for every query, framework list and dataset.  The code appends a hit    *)
(* before it tests the limit, so the first qualifying control is returned. *)
(***************************************************************************)
C4_NonPositiveLimitReturnsNothing ==
    (Searched /\ call.limit <= 0) => ret = Return(<<>>)

Mapped == loaded /\ call.op = "map_frameworks"

\* The controls with a non-null, non-empty mapping for key k.
MappedTo(k) == {n \in Indices : IsMapped(controls[n], k)}

\* A row of map_frameworks or get_framework_controls reports control n.
RowOf(row, n) ==
    /\ row.scf_id = controls[n].id
    /\ row.scf_name = controls[n].name
    /\ row.weight = controls[n].weight

(***************************************************************************)
(* C5: map_frameworks(source, target) without a source_control returns, in *)
(* stored order, exactly one Mapping per control whose mapping for source  *)
(* is non-null and non-empty and none for any other control, whatever the  *)
(* control maps to under target; every source_controls list is non-empty.  *)
(***************************************************************************)
C5_MapSelectsBySourceOnly ==
    (Mapped /\ call.source_control = None) =>
        LET S == MappedTo(call.source_framework)
        IN  /\ ret.tag = "return"
            /\ Len(ret.value) = Cardinality(S)
            /\ \A i \in 1..Len(ret.value) :
                  /\ RowOf(ret.value[i], Nth(S, i))
                  /\ ret.value[i].source_controls =
                        controls[Nth(S, i)].framework_mappings[call.source_framework].items
                  /\ ret.value[i].source_controls # <<>>

\* An unfiltered mapping over two controls returned only the second: the first
\* has no source mapping, the second has one and also a target mapping.
C5_Witness ==
    /\ Mapped
    /\ call.source_control = None
    /\ call.source_framework # call.target_framework
    /\ Len(controls) = 2
    /\ ~IsMapped(controls[1], call.source_framework)
    /\ IsMapped(controls[1], call.target_framework)
    /\ IsMapped(controls[2], call.source_framework)
    /\ Len(ret.value) = 1
    /\ RowOf(ret.value[1], 2)
    /\ controls[1].id # controls[2].id

(***************************************************************************)
(* C6: a control mapped under the source framework whose mapping under the *)
(* target framework is null, empty or missing still has its Mapping in     *)
(* map_frameworks(source, target), with target_controls the empty list     *)
(* (never null).                                                           *)
(***************************************************************************)
C6_NoTargetMappingKeepsRow ==
    (Mapped /\ call.source_control = None) =>
        \A n \in MappedTo(call.source_framework) :
            ~IsMapped(controls[n], call.target_framework) =>
                \E i \in 1..Len(ret.value) :
                    /\ RowOf(ret.value[i], n)
                    /\ ret.value[i].source_controls =
                          controls[n].framework_mappings[call.source_framework].items
                    /\ ret.value[i].target_controls = <<>>

\* A mapping returned a row with no target controls for a control whose target
\* mapping is null.
C6_Witness ==
    /\ Mapped
    /\ call.source_control = None
    /\ Len(controls) >= 1
    /\ IsMapped(controls[1], call.source_framework)
    /\ call.target_framework \in DOMAIN controls[1].framework_mappings
    /\ controls[1].framework_mappings[call.target_framework] = None
    /\ Len(ret.value) >= 1
    /\ RowOf(ret.value[1], 1)
    /\ ret.value[1].target_controls = <<>>

\* The rows of rows whose source_controls has x as an element.
RowsWithSourceControl(rows, x) ==
    LET Has(row) == \E j \in 1..Len(row.source_controls) : row.source_controls[j] = x
    IN  SelectSeq(rows, Has)

C8_ControlsMappedIsRowCount ==
    loaded =>
        /\ \A fw \in DOMAIN frameworks :
              /\ frameworks[fw].controls_mapped = Cardinality(MappedTo(fw))
              /\ Len(get_framework_controls(fw, FALSE)) = frameworks[fw].controls_mapped
        /\ (call.op = "get_framework_controls" /\ call.framework \in DOMAIN frameworks)
              => /\ ret.tag = "return"
                 /\ Len(ret.value) = frameworks[call.framework].controls_mapped

\* get_framework_controls of a registered framework returned one row while the
\* other loaded control carries the key with a null or empty mapping.
C8_Witness ==
    /\ loaded
    /\ call.op = "get_framework_controls"
    /\ call.framework \in DOMAIN frameworks
    /\ Len(controls) = 2
    /\ \E n \in Indices :
          /\ call.framework \in DOMAIN controls[n].framework_mappings
          /\ ~IsMapped(controls[n], call.framework)
    /\ frameworks[call.framework].controls_mapped = 1
    /\ Len(ret.value) = 1

\* Every key the model knows: of the name table, of a control, or of neither.
AllKeys == DOMAIN framework_names \cup Range(MappingKeyOrder) \cup {UnknownKey}

(***************************************************************************)
(* C9: after loading, a key is in `frameworks` if and only if it is in the *)
(* (key, display name) table and at least one loaded control has a         *)
(* non-null, non-empty mapping for it; so a registered framework has       *)
(* controls_mapped >= 1 and a key found only in controls' mapping tables   *)
(* is never registered.                                                    *)
(***************************************************************************)
C9_RegisteredIffNamedAndMapped ==
    loaded =>
        /\ DOMAIN frameworks \subseteq AllKeys
        /\ \A k \in AllKeys :
              k \in DOMAIN frameworks <=>
                  (k \in DOMAIN framework_names /\ MappedTo(k) # {})
        /\ \A k \in DOMAIN frameworks :
              /\ frameworks[k].controls_mapped >= 1
              /\ frameworks[k].key = k
              /\ frameworks[k].name = framework_names[k]

\* A loaded dataset in which a control maps the unlisted key and carries a
\* null mapping for a listed one: one listed key is registered, the
\* unlisted key and the listed but unmapped key are not.
C9_Witness ==
    /\ loaded
    /\ MappedTo(UnlistedKey) # {}
    /\ UnlistedKey \notin DOMAIN frameworks
    /\ \E n \in Indices : "gdpr" \in DOMAIN controls[n].framework_mappings
    /\ "gdpr" \notin DOMAIN frameworks
    /\ "iso_27001_2022" \in DOMAIN frameworks

(***************************************************************************)
(* C10: for every query, limit and non-empty framework list, the filtered  *)
(* search returns no more hits than search_controls(query, None, limit).   *)
(***************************************************************************)
C10_FilterNeverAddsHits ==
    (Searched /\ call.frameworks.tag = "list" /\ call.frameworks.items # <<>>) =>
        LET unfiltered == search_controls(call.query, None, call.limit)
        IN  /\ ret.tag = "return"
            /\ unfiltered.tag = "return"
            /\ Len(ret.value) <= Len(unfiltered.value)

\* A filtered search returned one hit where the unfiltered one returns two.
C10_Witness ==
    /\ Searched
    /\ call.frameworks.tag = "list"
    /\ call.frameworks.items # <<>>
    /\ call.limit = 2
    /\ Len(ret.value) = 1
    /\ Len(search_controls(call.query, None, call.limit).value) = 2

(***************************************************************************)
(* C11: with a non-empty list of framework keys, the hits of               *)
(* search_controls are, in stored order and without a gap, controls that   *)
(* match the text and have a non-null, non-empty mapping for at least one  *)
(* supplied key (one mapped key suffices, an unknown key in the list is    *)
(* harmless, and a qualifying control yields a hit when limit >= 1); with  *)
(* an absent or empty list no control is passed over for its mappings, and *)
(* the empty list gives the result of the absent one.                      *)
(***************************************************************************)
C11_FrameworkFilterIsAnyOf ==
    Searched =>
        LET Q == Qualifying(call.query, call.frameworks)
            T == {n \in Indices : TextQualifies(controls[n], call.query)}
        IN  /\ ret.tag = "return"
            /\ Len(ret.value) <= Cardinality(Q)
            /\ \A i \in 1..Len(ret.value) : HitOf(ret.value[i], Nth(Q, i))
            /\ (call.limit >= 1 /\ Q # {}) => Len(ret.value) >= 1
            /\ (call.frameworks = None \/ call.frameworks = List(<<>>)) => Q = T
            /\ call.frameworks = List(<<>>)
                  => ret = search_controls(call.query, None, call.limit)

\* A search filtered by an unknown key and a listed key returned a control
\* that maps the listed key only, after passing over a text match that maps
\* neither.
C11_Witness ==
    /\ Searched
    /\ call.frameworks = List(<<UnknownKey, "iso_27001_2022">>)
    /\ call.limit >= 1
    /\ Len(controls) = 2
    /\ TextQualifies(controls[1], call.query)
    /\ ~IsMapped(controls[1], "iso_27001_2022")
    /\ IsMapped(controls[2], "iso_27001_2022")
    /\ ~IsMapped(controls[2], UnknownKey)
    /\ controls[1].name # controls[2].name
    /\ Len(ret.value) = 1
    /\ HitOf(ret.value[1], 2)

(***************************************************************************)
(* C12: once the dataset is loaded no step changes controls,               *)
(* controls_by_id, frameworks, framework_categories or framework_to_scf,   *)
(* and the call just answered, made again with the same arguments on the   *)
(* dataset it left behind, returns the same result.                        *)
(***************************************************************************)
RepeatedCallReturnsSame ==
    CASE call.op = "get_control" -> ret = Return(get_control(call.control_id))
      [] call.op = "search_controls" ->
            ret = search_controls(call.query, call.frameworks, call.limit)
      [] call.op = "get_framework_controls" ->
            ret = Return(get_framework_controls(call.framework, call.include_descriptions))
      [] call.op = "map_frameworks" ->
            ret = Return(map_frameworks(call.source_framework, call.target_framework,
                                        call.source_control))
      [] OTHER -> TRUE

C12_QueriesLeaveDatasetUnchanged ==
    [][loaded => (dataset' = dataset /\ RepeatedCallReturnsSame')]_vars

\* A call that found something was answered, the dataset is still what
\* _load_data built from the file, and the call made again returns the same.
C12_Witness ==
    /\ loaded
    /\ call.op = "get_control"
    /\ ret.value # None
    /\ Len(controls) = 2
    /\ controls[1].id = controls[2].id
    /\ controls_by_id = BuildIdIndex(controls)
    /\ frameworks = BuildFrameworkMetadata(controls)
    /\ framework_to_scf = build_reverse_index(controls)
    /\ framework_to_scf["dora"] # <<>>
    /\ framework_categories = FrameworkCategories
    /\ RepeatedCallReturnsSame

(***************************************************************************)
(* C13: with readers inside the engine at the same time, their scans       *)
(* interleaved iteration by iteration and nothing synchronising them,      *)
(* every call returns what the same call returns when it runs alone on the *)
(* loaded dataset, and no step changes the dataset.                        *)
(***************************************************************************)
AloneResult(c) ==
    CASE c.op = "get_control" -> Return(get_control(c.control_id))
      [] c.op = "search_controls" -> search_controls(c.query, c.frameworks, c.limit)
      [] c.op = "get_framework_controls" ->
            Return(get_framework_controls(c.framework, c.include_descriptions))
      [] c.op = "map_frameworks" ->
            Return(map_frameworks(c.source_framework, c.target_framework, c.source_control))

C13_ConcurrentCallReturnsAsAlone ==
    /\ \A r \in Readers :
          readers[r].pc = "done" => readers[r].ret = AloneResult(readers[r].call)
    /\ loaded =>
          /\ controls_by_id = BuildIdIndex(controls)
          /\ frameworks = BuildFrameworkMetadata(controls)
          /\ framework_to_scf = build_reverse_index(controls)

\* One reader has returned two hits of a search while the other is in the
\* middle of a different scan, past its first control with a row collected.
C13_Witness ==
    /\ readers["r1"].pc = "done"
    /\ readers["r1"].call.op = "search_controls"
    /\ Len(readers["r1"].ret.value) = 2
    /\ readers["r2"].pc = "scan"
    /\ readers["r2"].call.op = "map_frameworks"
    /\ readers["r2"].n = 2
    /\ Len(readers["r2"].results) = 1

(***************************************************************************)
(* C14: the engine treats a key no control maps as no error:               *)
(* get_framework_controls(k) returns [] for every such key, registered or  *)
(* not; map_frameworks(s, t) returns [] when no control maps s and rows    *)
(* whose target_controls is [] when no control maps t; neither raises, and *)
(* the result for the unknown key is the result the same call gives for a  *)
(* listed key that no control maps.                                        *)
(***************************************************************************)
\* A key of the name table that no loaded control maps.
KnownUnmapped == {k \in DOMAIN framework_names : MappedTo(k) = {}}

C14_UnknownKeyIsEmptyNotError ==
    /\ (loaded /\ call.op = "get_framework_controls") =>
          /\ ret.tag = "return"
          /\ MappedTo(call.framework) = {} => Len(ret.value) = 0
          /\ call.framework = UnknownKey =>
                \A k \in KnownUnmapped :
                    ret.value = get_framework_controls(k, call.include_descriptions)
    /\ Mapped =>
          /\ ret.tag = "return"
          /\ MappedTo(call.source_framework) = {} => Len(ret.value) = 0
          /\ MappedTo(call.target_framework) = {} =>
                \A i \in 1..Len(ret.value) : Len(ret.value[i].target_controls) = 0
          /\ call.source_framework = UnknownKey =>
                \A k \in KnownUnmapped :
                    ret.value = map_frameworks(k, call.target_framework, call.source_control)
          /\ call.target_framework = UnknownKey =>
                \A k \in KnownUnmapped :
                    ret.value = map_frameworks(call.source_framework, k, call.source_control)

\* map_frameworks from a mapped source to the unknown key returned two rows,
\* while a listed key is mapped by no control and another only by empty lists.
C14_Witness ==
    /\ Mapped
    /\ call.target_framework = UnknownKey
    /\ call.source_framework = "dora"
    /\ call.source_control = None
    /\ Len(ret.value) = 2
    /\ "gdpr" \in KnownUnmapped
    /\ "iso_27001_2022" \in KnownUnmapped
    /\ \E n \in Indices : "iso_27001_2022" \in DOMAIN controls[n].framework_mappings

(***************************************************************************)
(* C15: startup is all or nothing.  When scf-controls.json or              *)
(* framework-to-scf.json is missing or unparseable the construction of     *)
(* SCFData ends in the error and no query is ever answered; a query is     *)
(* answered only by an instance whose construction ran to its end, with    *)
(* the id index, the reverse index and the Framework registry all built.   *)
(***************************************************************************)
C15_StartupIsAllOrNothing ==
    /\ startup.failure # "none" => (startup.pc = "aborted" /\ ~loaded /\ call = NoCall)
    /\ (loaded \/ call # NoCall) =>
          /\ startup = [pc |-> "ready", failure |-> "none"]
          /\ controls_by_id = BuildIdIndex(controls)
          /\ framework_to_scf = build_reverse_index(controls)
          /\ framework_categories = FrameworkCategories
          /\ frameworks = BuildFrameworkMetadata(controls)

\* The controls were read and indexed, then the reverse index failed to
\* load: the half-built fields exist but no instance serves them.
C15_Witness ==
    /\ startup = [pc |-> "aborted", failure |-> "framework-to-scf.json"]
    /\ Len(controls) = 2
    /\ controls_by_id = BuildIdIndex(controls)
    /\ framework_to_scf = <<>>
    /\ frameworks = <<>>
    /\ ~loaded
    /\ call = NoCall

(***************************************************************************)
(* What the adapter claims say about a request and its handling.           *)
(***************************************************************************)
\* The argument as the request carries it (None when it is left out).
Requested(arg) == DictGet(request.arguments, arg)

\* A non-empty key with no whitespace around it.
PlainKey(v) == v.tag = "name" /\ v.k # "" /\ StripName(v.k) = v.k

InRegistry(v) == v.k \in DOMAIN frameworks

RespondedNotFound(which, v) ==
    /\ response = [kind |-> "not_found", which |-> which, key |-> v]
    /\ call = NoCall

(***************************************************************************)
(* C16: every adapter checks the framework key(s) of                       *)
(* get_framework_controls and map_frameworks against the Framework         *)
(* registry before it calls the engine: the engine is only ever called     *)
(* with registered keys, a key that is not registered gets a "not found"   *)
(* response and no engine call, and map_frameworks checks the source key   *)
(* first, so with both keys unknown the response names the source.         *)
(***************************************************************************)
C16_AdaptersCheckRegistryFirst ==
    /\ call.op = "get_framework_controls" =>
          (call.framework.tag = "name" /\ InRegistry(call.framework))
    /\ call.op = "map_frameworks" =>
          /\ call.source_framework.tag = "name" /\ InRegistry(call.source_framework)
          /\ call.target_framework.tag = "name" /\ InRegistry(call.target_framework)
    /\ (request.entry # "none" /\ request.tool = "get_framework_controls"
          /\ PlainKey(Requested("framework"))) =>
          IF InRegistry(Requested("framework"))
          THEN call.op = "get_framework_controls" /\ call.framework = Requested("framework")
          ELSE RespondedNotFound("framework", Requested("framework"))
    /\ (request.entry # "none" /\ request.tool = "map_frameworks"
          /\ PlainKey(Requested("source_framework"))
          /\ PlainKey(Requested("target_framework"))) =>
          IF ~InRegistry(Requested("source_framework"))
          THEN RespondedNotFound("source", Requested("source_framework"))
          ELSE IF ~InRegistry(Requested("target_framework"))
          THEN RespondedNotFound("target", Requested("target_framework"))
          ELSE /\ call.op = "map_frameworks"
               /\ call.source_framework = Requested("source_framework")
               /\ call.target_framework = Requested("target_framework")

\* The REST endpoint was asked to map between two keys neither of which is
\* registered, on a dataset that registers others: it answered "not found"
\* for the source and made no engine call.
C16_Witness ==
    /\ request.entry = "rest"
    /\ request.tool = "map_frameworks"
    /\ Requested("source_framework") = Name("gdpr")
    /\ Requested("target_framework") = Name(UnknownKey)
    /\ DOMAIN frameworks = {"iso_27001_2022", "dora"}
    /\ RespondedNotFound("source", Name("gdpr"))

(***************************************************************************)
(* C17 (as stated): every adapter entry point that calls search_controls   *)
(* (the stdio call_tool, the HTTP call_tool and POST /api/search) passes   *)
(* the engine a limit clamped into [1, 100], whatever limit the request    *)
(* carried.  Refuted by the HTTP call_tool and by POST /api/search, which  *)
(* pass the request's limit on as it came.                                 *)
(***************************************************************************)
C17_EveryAdapterClampsLimit ==
    (request.entry # "none" /\ call.op = "search_controls") =>
        /\ call.limit.tag = "int"
        /\ call.limit.n >= LimitFloor
        /\ call.limit.n <= LimitCeiling

(***************************************************************************)
(* C18 (as stated): every adapter entry point answers a missing or empty   *)
(* required string argument (control_id, query, framework,                 *)
(* source_framework, target_framework) with an "X is required" response    *)
(* and no engine call, so the engine is never called with an empty key or  *)
(* query and a missing argument never ends in an exception.  Refuted by    *)
(* the HTTP call_tool, which indexes `arguments` and validates nothing.    *)
(***************************************************************************)
RequiredArgs(tool) ==
    CASE tool = "get_control" -> {"control_id"}
      [] tool = "search_controls" -> {"query"}
      [] tool = "get_framework_controls" -> {"framework"}
      [] tool = "map_frameworks" -> {"source_framework", "target_framework"}

C18_EveryAdapterRejectsMissingOrEmpty ==
    request.entry # "none" =>
        /\ (\E arg \in RequiredArgs(request.tool) : ~Truthy(Requested(arg))) =>
              (response.kind = "required" /\ call = NoCall)
        /\ call.op = "get_control" => Truthy(call.control_id)
        /\ call.op = "search_controls" => Truthy(call.query)
        /\ response.kind # "exception"
              \/ \A arg \in RequiredArgs(request.tool) : arg \in DOMAIN request.arguments

(***************************************************************************)
(* C19 (as stated): for a hit whose description contains the query         *)
(* case-insensitively, with idx the first index where it does, the snippet *)
(* is description[max(0, idx-50) : min(len(description), idx+len(query)    *)
(* +100)], with an ellipsis in front iff the slice starts after 0 and one  *)
(* behind iff it ends before the end, so the snippet contains that         *)
(* occurrence; otherwise the snippet is the first 150 characters, with an  *)
(* ellipsis behind iff the description is longer.  Refuted by a            *)
(* description in which characters that lower-case to two characters       *)
(* precede the match: the code takes idx in description.lower() and slices *)
(* the description with it.                                                *)
(***************************************************************************)
\* The query occurs in desc at (0-based) index i, case-insensitively.
OccursAt(desc, query, i) ==
    \E j \in i..Min(Len(desc), i + Len(Lower(query))) :
        Lower(Slice(desc, i, j)) = Lower(query)

FirstOccurrence(desc, query) ==
    IF \E i \in 0..Len(desc) : OccursAt(desc, query, i)
    THEN CHOOSE i \in 0..Len(desc) :
            /\ OccursAt(desc, query, i)
            /\ \A j \in 0..(i - 1) : ~OccursAt(desc, query, j)
    ELSE -1

ClaimedSnippet(desc, query) ==
    LET idx == FirstOccurrence(desc, query)
        start == Max(0, idx - SnippetBefore)
        end == Min(Len(desc), idx + Len(query) + SnippetAfter)
    IN  IF idx >= 0
        THEN (IF start > 0 THEN Ellipsis ELSE <<>>)
             \o SubSeq(desc, start + 1, end)
             \o (IF end < Len(desc) THEN Ellipsis ELSE <<>>)
        ELSE SubSeq(desc, 1, Min(Len(desc), SnippetFallback))
             \o (IF Len(desc) > SnippetFallback THEN Ellipsis ELSE <<>>)

C19_SnippetSurroundsFirstOccurrence ==
    (Searched /\ ret.tag = "return") =>
        LET Q == Qualifying(call.query, call.frameworks)
        IN  \A i \in 1..Min(Len(ret.value), Cardinality(Q)) :
              LET desc == controls[Nth(Q, i)].description.s
                  snippet == ret.value[i].snippet
              IN  /\ snippet = ClaimedSnippet(desc, call.query)
                  /\ FirstOccurrence(desc, call.query) >= 0 =>
                        Contains(Lower(snippet), Lower(call.query))

(***************************************************************************)
(* C20: get_framework_controls(framework_key, include_descriptions)        *)
(* returns, in stored order, exactly one row for each control whose        *)
(* mapping for the key is non-null and non-empty and no other row; a row   *)
(* carries the control's id, name and weight and its list of native ids in *)
(* the list's order, which is never empty; a row has a description field   *)
(* if and only if include_descriptions is true.                            *)
(***************************************************************************)
C20_FrameworkControlsRows ==
    (loaded /\ call.op = "get_framework_controls") =>
        LET M == MappedTo(call.framework)
            rows == ret.value
        IN  /\ ret.tag = "return"
            /\ Len(rows) = Cardinality(M)
            /\ \A i \in 1..Len(rows) :
                  LET ctrl == controls[Nth(M, i)]
                  IN  /\ RowOf(rows[i], Nth(M, i))
                      /\ rows[i].framework_control_ids =
                            ctrl.framework_mappings[call.framework].items
                      /\ Len(rows[i].framework_control_ids) > 0
                      /\ ("description" \in DOMAIN rows[i]) <=> call.include_descriptions
                      /\ call.include_descriptions =>
                            rows[i].description = ctrl.description

\* Descriptions were asked for; the first control has an empty list for the
\* key and gets no row, the second has two native ids and gets the one row,
\* with its ids in their stored order and its description.
C20_Witness ==
    /\ loaded
    /\ call.op = "get_framework_controls"
    /\ call.framework = "iso_27001_2022"
    /\ call.include_descriptions
    /\ Len(controls) = 2
    /\ DictGet(controls[1].framework_mappings, "iso_27001_2022") = List(<<>>)
    /\ Len(ret.value) = 1
    /\ ret.value[1].framework_control_ids = <<Id510, Id51>>
    /\ ret.value[1].description = controls[2].description
    /\ ret.value[1].scf_id # controls[1].id

(***************************************************************************)
(* C21: when the loaded list holds two records of one id, controls_by_id   *)
(* maps the id to the later record and get_control returns that one, while *)
(* `controls` keeps both: search_controls (when the limit does not cut     *)
(* them off), get_framework_controls and map_frameworks return a row for   *)
(* each record of the id that qualifies, the earlier one first.            *)
(***************************************************************************)
\* The stored records of id i.
RecordsOf(i) == {n \in Indices : controls[n].id = i}

\* The entries of a result that carry id i under the given field are as many
\* as the records S of that id which qualify, and the k-th of them reports the
\* k-th record of S.
RowsOfId(rows, field, i, S, Reports(_, _)) ==
    LET J == {j \in 1..Len(rows) : rows[j][field] = i}
    IN  /\ Cardinality(J) = Cardinality(S)
        /\ \A j \in J : Reports(rows[j], Nth(S, 1 + Cardinality({k \in J : k < j})))

C21_DuplicateIdKeepsBothRecords ==
    loaded =>
        \A i \in ControlIds :
            Cardinality(RecordsOf(i)) >= 2 =>
                LET last == CHOOSE n \in RecordsOf(i) : \A m \in RecordsOf(i) : m <= n
                IN  /\ controls_by_id[i] = controls[last]
                    /\ get_control(i) = controls[last]
                    /\ (call.op = "get_control" /\ call.control_id = i)
                          => ret = Return(controls[last])
                    /\ call.op = "get_framework_controls"
                          => /\ ret.tag = "return"
                             /\ RowsOfId(ret.value, "scf_id", i,
                                         RecordsOf(i) \cap MappedTo(call.framework), RowOf)
                    /\ (call.op = "map_frameworks" /\ call.source_control = None)
                          => /\ ret.tag = "return"
                             /\ RowsOfId(ret.value, "scf_id", i,
                                         RecordsOf(i) \cap MappedTo(call.source_framework),
                                         RowOf)
                    /\ (call.op = "search_controls" /\ call.limit >= 1
                          /\ call.limit >= Cardinality(Qualifying(call.query, call.frameworks)))
                          => /\ ret.tag = "return"
                             /\ RowsOfId(ret.value, "control_id", i,
                                         RecordsOf(i)
                                            \cap Qualifying(call.query, call.frameworks),
                                         HitOf)

\* Two different records share an id and both map the source framework:
\* map_frameworks returned a row for each, the earlier record's first.
C21_Witness ==
    /\ Mapped
    /\ call.source_control = None
    /\ Len(controls) = 2
    /\ controls[1].id = controls[2].id
    /\ controls[1].weight # controls[2].weight
    /\ controls_by_id[controls[1].id] = controls[2]
    /\ Len(ret.value) = 2
    /\ RowOf(ret.value[1], 1)
    /\ RowOf(ret.value[2], 2)

(***************************************************************************)
(* C22: every control record the extraction produces has an integer weight *)
(* in 1..10, and the weight is 5 whenever the weight cell of its row is    *)
(* absent or not a number.  The code takes any cell whose text is digits   *)
(* as the weight, whatever its value.                                      *)
(***************************************************************************)
\* The rows extract_controls makes a record of, in order.
KeptRows == SelectSeq(ws, LAMBDA row : ~SkipRow(row))

Extracted == extracted.done /\ extracted.raised = "none"

\* The cell is empty, or holds no number: a bool, or text that is no numeral.
AbsentOrNonNumeric(cell) ==
    \/ cell.tag \in {"None", "bool"}
    \/ cell.tag = "str" /\ ~IsDecimal(StripSpace(cell.s))

C22_WeightIsOneToTenDefaultFive ==
    Extracted =>
        /\ Len(extracted.controls) = Len(KeptRows)
        /\ \A i \in 1..Len(extracted.controls) :
              /\ extracted.controls[i].weight \in 1..10
              /\ AbsentOrNonNumeric(KeptRows[i].weight)
                    => extracted.controls[i].weight = DefaultWeight

(***************************************************************************)
(* C23: every control record the extraction produces has a                 *)
(* framework_mappings entry for every known framework key, and each entry  *)
(* is null or a non-empty list of native ids none of which is the empty    *)
(* string: no key is missing and no list is empty.                         *)
(***************************************************************************)
C23_EveryKeyNullOrNonEmptyList ==
    Extracted =>
        \A i \in 1..Len(extracted.controls) :
            LET mappings == extracted.controls[i].framework_mappings
            IN  /\ DOMAIN mappings = Range(FRAMEWORK_COLUMNS)
                /\ \A k \in DOMAIN mappings :
                      \/ mappings[k] = None
                      \/ /\ mappings[k].tag = "list"
                         /\ mappings[k].items # <<>>
                         /\ \A j \in 1..Len(mappings[k].items) : mappings[k].items[j] # <<>>

\* A row whose dora cell holds separators only became a record with a null
\* dora mapping, next to a row whose cell lists two ids between empty parts.
C23_Witness ==
    /\ Extracted
    /\ Len(extracted.controls) = 2
    /\ KeptRows[1].cells["dora"] = Str(<<" ", ",", " ">>)
    /\ extracted.controls[1].framework_mappings["dora"] = None
    /\ KeptRows[2].cells["dora"] = Str(<<" ">> \o ArtA \o <<";", ";", ",">> \o ArtB \o <<" ">>)
    /\ extracted.controls[2].framework_mappings["dora"] = List(<<ArtA, ArtB>>)
    /\ extracted.controls[2].framework_mappings["gdpr"] = None

(***************************************************************************)
(* C24: the reverse index is the inverse of the per-control mappings.  For *)
(* every framework key f, native id n and SCF id s: s occurs in            *)
(* reverse_index[f][n] if and only if n occurs in the non-null             *)
(* framework_mappings[f] of a control with id s; the SCF ids stand in      *)
(* control order; and every known framework key has an entry, even when no *)
(* control maps to it.  It holds of what the extraction writes and of what *)
(* SCFData loads from it.                                                  *)
(***************************************************************************)
\* The places where native id n stands under key f: <<control, position>>.
Listings(cs, f, n) ==
    UNION {{<<k, j>> : j \in {i \in 1..Len(cs[k].framework_mappings[f].items) :
                                  cs[k].framework_mappings[f].items[i] = n}} :
              k \in {c \in 1..Len(cs) : IsMapped(cs[c], f)}}

\* The native ids the model's cells and files can hold.
NativeIds == {Id51, Id510, ArtA, ArtB, L1, <<"5">>, <<"T", "r", "u", "e">>}

IsInverse(cs, reverse_index) ==
    /\ DOMAIN reverse_index = Range(FRAMEWORK_COLUMNS)
    /\ \A f \in DOMAIN reverse_index :
          /\ DOMAIN reverse_index[f] \subseteq NativeIds
          /\ \A n \in NativeIds :
                LET P == Listings(cs, f, n)
                    ids == IF n \in DOMAIN reverse_index[f] THEN reverse_index[f][n] ELSE <<>>
                    Before(p, q) == p[1] < q[1] \/ (p[1] = q[1] /\ p[2] < q[2])
                IN  /\ n \in DOMAIN reverse_index[f] <=> P # {}
                    /\ \A s \in ControlIds :
                          (\E i \in 1..Len(ids) : ids[i] = s)
                              <=> (\E p \in P : cs[p[1]].id = s)
                    /\ Len(ids) = Cardinality(P)
                    /\ \A i \in 1..Len(ids) :
                          \E p \in P : /\ Cardinality({q \in P : Before(q, p)}) = i - 1
                                       /\ ids[i] = cs[p[1]].id

C24_ReverseIndexIsInverse ==
    /\ Extracted => IsInverse(extracted.controls, extracted.reverse_index)
    /\ (Extracted /\ loaded) =>
          /\ framework_to_scf = extracted.reverse_index
          /\ IsInverse(controls, framework_to_scf)

\* Two controls with different ids list the same dora article: the index has
\* both ids under it, the earlier control's first, and an empty table for gdpr,
\* which no control maps to; SCFData has loaded the same index.
C24_Witness ==
    /\ Extracted
    /\ loaded
    /\ Len(controls) = 2
    /\ controls[1].id = "GOV-02"
    /\ controls[2].id = "GOV-01"
    /\ framework_to_scf["dora"][ArtA] = <<"GOV-02", "GOV-01">>
    /\ DOMAIN framework_to_scf["gdpr"] = {}
    /\ "gdpr" \in DOMAIN framework_to_scf

(***************************************************************************)
(* C25: while PREMIUM_ENABLED is not exactly "true", server.py's call_tool *)
(* answers each premium tool name (get_control_history, diff_control,      *)
(* get_framework_changes) with the upgrade response, premium == false,     *)
(* whatever the arguments; it raises nothing and returns no version data.  *)
(* call_tool has no branch for these names and raises ValueError.          *)
(***************************************************************************)
C25_PremiumToolsAnswerUpgrade ==
    (request.entry = "stdio" /\ request.tool \in PremiumToolNames /\ environ # Name("true"))
        => response = upgrade_response

(***************************************************************************)
(* C26: the extractor registry is last-writer-wins per exact pattern.      *)
(* Every register_extractor(p)(cls) makes cls the entry of exactly the     *)
(* string p (case-sensitive, the empty string included) and leaves the     *)
(* entry of every other pattern as it was; get_extractor(p) changes        *)
(* nothing and returns the entry of p, or None when nothing was ever       *)
(* registered under p.  So a lookup returns the class most recently        *)
(* registered under its pattern.                                           *)
(***************************************************************************)
\* The entry of pattern p in a registry, None when there is none.
EntryOf(registry, p) == IF p \in DOMAIN registry THEN Name(registry[p]) ELSE None

C26_RegistryIsLastWriterWins ==
    [][/\ \A p \in Patterns :
             IF call'.op = "register_extractor" /\ call'.standard_pattern = p
             THEN EntryOf(SPECIALIZED_EXTRACTORS', p) = Name(call'.cls)
             ELSE EntryOf(SPECIALIZED_EXTRACTORS', p) = EntryOf(SPECIALIZED_EXTRACTORS, p)
       /\ DOMAIN SPECIALIZED_EXTRACTORS' \subseteq Patterns
       /\ call'.op = "get_extractor"
             => ret' = Return(EntryOf(SPECIALIZED_EXTRACTORS, call'.standard_pattern))
       /\ (SPECIALIZED_EXTRACTORS = <<>> /\ call'.op = "get_extractor")
             => ret' = Return(None)]_vars

\* "iso_27001" and "" have entries, "ISO_27001" has none: a lookup of
\* "ISO_27001" returned None.
C26_Witness ==
    /\ call = [op |-> "get_extractor", standard_pattern |-> "ISO_27001"]
    /\ ret = Return(None)
    /\ DOMAIN SPECIALIZED_EXTRACTORS = {"", "iso_27001"}
    /\ SPECIALIZED_EXTRACTORS[""] = "SOC2Extractor"
    /\ SPECIALIZED_EXTRACTORS["iso_27001"] = "ISO27001Extractor"

(***************************************************************************)
(* C27: the change queries of VersionHistory filter, order and truncate.   *)
(* get_recent_changes(since, framework, limit) answers with loaded changes *)
(* whose effective_date is not before since and, when a framework is       *)
(* given, whose frameworks_affected holds it; get_framework_changes(       *)
(* framework, since, limit) with loaded changes whose frameworks_affected  *)
(* holds framework and, when since is given, whose effective_date is not   *)
(* before it.  The answer is in descending order of effective_date, it is  *)
(* the head of that order (no left-out passing change is later than a      *)
(* returned one), it holds all passing changes or limit of them, and never *)
(* more than limit entries (none for a limit below one).                   *)
(***************************************************************************)
\* The change passes the filter of the query q.
Passes(q, change) ==
    IF q.op = "get_recent_changes"
    THEN /\ ~StrLess(EffectiveDate(change), q.since)
         /\ q.framework # None
               => \E i \in DOMAIN FrameworksAffected(change) :
                      FrameworksAffected(change)[i] = q.framework.k
    ELSE /\ \E i \in DOMAIN FrameworksAffected(change) :
                FrameworksAffected(change)[i] = q.framework
         /\ q.since # None => ~StrLess(EffectiveDate(change), q.since.s)

\* How many entries of the list are this change.
Occurrences(list, change) == Cardinality({i \in DOMAIN list : list[i] = change})

\* How many loaded changes pass the filter of q.
PassingCount(q) == Cardinality({i \in DOMAIN vh.history : Passes(q, vh.history[i])})

ChangeQueryAnswered ==
    vh.call # NoCall /\ vh.call.op # "get_control_history" /\ vh.exc = "none"

C27_ChangeQueriesFilterOrderTruncate ==
    ChangeQueryAnswered =>
        LET q == vh.call
            result == vh.ret
        IN  /\ Len(result) <= Max(q.limit, 0)
            /\ Len(result) = Min(Max(q.limit, 0), PassingCount(q))
            /\ \A i \in DOMAIN result :
                  /\ Passes(q, result[i])
                  /\ Occurrences(result, result[i]) <= Occurrences(vh.history, result[i])
            /\ \A i, j \in DOMAIN result :
                  i < j => ~StrLess(EffectiveDate(result[i]), EffectiveDate(result[j]))
            /\ \A n \in DOMAIN vh.history :
                  LET change == vh.history[n]
                  IN  (Passes(q, change)
                         /\ Occurrences(result, change) < Occurrences(vh.history, change))
                        => \A i \in DOMAIN result :
                              ~StrLess(EffectiveDate(result[i]), EffectiveDate(change))

(***************************************************************************)
(* C28: search_controls never raises because of a control whose name or    *)
(* description is null or empty.  Such a field counts as the empty string  *)
(* for matching, and a control that is a hit gets a result with a snippet  *)
(* even when its description is null: for a limit of one or more, the      *)
(* results are the first `limit` controls that match with null read as "". *)
(***************************************************************************)
\* The text of a field, null read as the empty string.
TextOf(field) == IF field = None THEN <<>> ELSE field.s

\* The positions of the stored controls that are hits of the call c.
HitPositions(c) ==
    {i \in DOMAIN controls :
        /\ \/ Contains(Lower(TextOf(controls[i].name)), Lower(c.query))
           \/ Contains(Lower(TextOf(controls[i].description)), Lower(c.query))
        /\ (c.frameworks # None /\ c.frameworks.items # <<>>)
              => \E k \in DOMAIN c.frameworks.items :
                    LET fw == c.frameworks.items[k]
                    IN  /\ fw \in DOMAIN controls[i].framework_mappings
                        /\ controls[i].framework_mappings[fw] \notin {None, List(<<>>)}}

SearchAnswered == loaded /\ call.op = "search_controls"

C28_NullFieldsNeverRaise ==
    SearchAnswered =>
        /\ ret.tag = "return"
        /\ call.limit >= 1 =>
              /\ Len(ret.value) = Min(call.limit, Cardinality(HitPositions(call)))
              /\ \A n \in DOMAIN ret.value :
                    \E i \in HitPositions(call) :
                        /\ Cardinality({j \in HitPositions(call) : j < i}) = n - 1
                        /\ ret.value[n].control_id = controls[i].id
                        /\ ret.value[n].name = controls[i].name
                        /\ "snippet" \in DOMAIN ret.value[n]

(***************************************************************************)
(* C29: map_frameworks and get_framework_controls agree on the source      *)
(* side.  For framework keys s and t, map_frameworks(s, t) without a       *)
(* source_control has one row per row of get_framework_controls(s), in the *)
(* same order, with the same scf_id, scf_name and weight and with          *)
(* source_controls equal to that row's framework_control_ids; so for a     *)
(* registered s its length is frameworks[s].controls_mapped, whatever t.   *)
(***************************************************************************)
MappedWithoutFilter == loaded /\ call.op = "map_frameworks" /\ call.source_control = None

C29_MapAgreesWithFrameworkControls ==
    MappedWithoutFilter =>
        \A include_descriptions \in BOOLEAN :
            LET rows == ret.value
                listed == get_framework_controls(call.source_framework, include_descriptions)
            IN  /\ Len(rows) = Len(listed)
                /\ \A n \in DOMAIN rows :
                      /\ rows[n].scf_id = listed[n].scf_id
                      /\ rows[n].scf_name = listed[n].scf_name
                      /\ rows[n].weight = listed[n].weight
                      /\ rows[n].source_controls = listed[n].framework_control_ids
                /\ call.source_framework \in DOMAIN frameworks
                      => Len(rows) = frameworks[call.source_framework].controls_mapped

\* Two controls map to the registered source framework, one of them has no
\* mapping to the target, and their rows differ in every compared field.
C29_Witness ==
    /\ MappedWithoutFilter
    /\ call.source_framework = "dora"
    /\ call.target_framework = "gdpr"
    /\ "dora" \in DOMAIN frameworks
    /\ Len(ret.value) = 2
    /\ ret.value[1].scf_id # ret.value[2].scf_id
    /\ ret.value[1].scf_name # ret.value[2].scf_name
    /\ ret.value[1].weight # ret.value[2].weight
    /\ ret.value[1].source_controls # ret.value[2].source_controls
    /\ ret.value[1].target_controls = <<>>

(***************************************************************************)
(* C30: VersionHistory loads version-history.json lazily and at most once. *)
(* Nothing is read before the first query; with the file missing every     *)
(* query returns an empty list; and after any sequence of queries the file *)
(* has been opened at most once, `history` is the file's list of changes   *)
(* and the per-control index holds each change once, under its control_id, *)
(* in file order: no later call reads again or appends a change again.     *)
(***************************************************************************)
\* The "changes" of the file on disk.
FileChanges ==
    IF history_file.exists = "yes" /\ "changes" \in DOMAIN history_file.data
    THEN history_file.data.changes
    ELSE <<>>

\* The changes of the file that are objects and belong to the control id.
ChangesOf(cid) ==
    LET Belongs(change) ==
            /\ "tag" \notin DOMAIN change
            /\ (IF "control_id" \in DOMAIN change THEN change.control_id ELSE "") = cid
    IN  SelectSeq(FileChanges, Belongs)

C30_HistoryLoadedAtMostOnce ==
    /\ vh.reads <= 1
    /\ vh.call = NoCall => (vh.reads = 0 /\ vh.history = <<>> /\ vh.control_history = <<>>)
    /\ (vh.call # NoCall /\ history_file.exists = "no")
          => (vh.exc = "none" /\ vh.ret = <<>> /\ vh.reads = 0)
    /\ vh.call # NoCall =>
          /\ vh.history = FileChanges
          /\ \A cid \in HistoryIds \cup DOMAIN vh.control_history :
                (IF cid \in DOMAIN vh.control_history THEN vh.control_history[cid] ELSE <<>>)
                    = ChangesOf(cid)

====
